---- MODULE Spec2Model ----
(***************************************************************************)
(* Register & Translation Unit (MemoryAccessor) over the sparse Backing    *)
(* Store (MemoryStream) of php-machine-emulator's native core.             *)
(*                                                                         *)
(* Machine words.  Every u64 / usize / u32 / u8 of the source is modelled   *)
(* at full width as the set of its set bit positions (a subset of 0..63):  *)
(* 0x20 is {5}, 0xFFFFF000 is 12..31.  Bitwise operators are set            *)
(* operators, + is a carry loop modulo 2^64, < compares the highest         *)
(* differing bit.                                                          *)
(***************************************************************************)
EXTENDS Integers, Sequences, FiniteSets, TLC

\* ------------------------------------------------------------------------
\* Word arithmetic (Rust u64 / usize operators)
\* ------------------------------------------------------------------------

\* the word of a small natural number literal (n < 2^31)
U(n) == {i \in 0..30 : (n \div (2^i)) % 2 = 1}

\* the word with bits lo..hi set, e.g. 0xFFFFF000 = Mask(12, 31)
Mask(lo, hi) == lo..hi

\* a & b
And(a, b) == a \cap b

\* a | b
Or(a, b) == a \cup b

\* a >> k
Shr(a, k) == {i - k : i \in {j \in a : j >= k}}

\* a << k (bits shifted past bit 63 are lost)
Shl(a, k) == {i + k : i \in {j \in a : j + k <= 63}}

\* the highest bit set in a non-zero word
Top(a) == CHOOSE x \in a : \A y \in a : y <= x

\* a + b modulo 2^64: bit i of the sum is a_i xor b_i xor the carry into i,
\* and a carry enters i when it is generated at some j < i (a_j and b_j) and
\* propagated by every bit between (a_k or b_k); no bit of the sum lies more
\* than one above the highest bit of a and b
Add(a, b) ==
    LET carry(i) == \E j \in a \cap b : j < i /\ \A k \in (j + 1)..(i - 1) : k \in a \cup b
    IN  IF a \cap b = {} THEN a \cup b
        ELSE {i \in 0..(IF Top(a \cup b) < 63 THEN Top(a \cup b) + 1 ELSE 63) :
                (i \in a) # ((i \in b) # carry(i))}

\* a < b
Less(a, b) ==
    LET d == (a \ b) \cup (b \ a)
    IN  d # {} /\ (CHOOSE x \in d : \A y \in d : y <= x) \in b

\* a >= b
GreaterEq(a, b) == ~Less(a, b)

\* std::cmp::min
Min(a, b) == IF Less(b, a) THEN b ELSE a

\* `as u32`
AsU32(a) == a \cap Mask(0, 31)

\* `as u8`
AsU8(a) == a \cap Mask(0, 7)

\* !a
Not(a) == Mask(0, 63) \ a

\* a - b modulo 2^64: bit i of the difference is a_i xor b_i xor the borrow
\* into i, and a borrow enters i when it is generated at some j < i (b_j and
\* not a_j) and no bit between stops it (a_k and not b_k); when a >= b no bit
\* of the difference lies above the highest bit of a
Sub(a, b) ==
    LET borrow(i) == \E j \in b \ a : j < i /\ \A k \in (j + 1)..(i - 1) : k \notin a \ b
    IN  IF b \subseteq a THEN a \ b
        ELSE {i \in 0..(IF Less(a, b) THEN 63 ELSE Top(a)) :
                (i \in a) # ((i \in b) # borrow(i))}

\* a * b modulo 2^64 (shift and add)
RECURSIVE Mul(_, _)
Mul(a, b) ==
    IF b = {} THEN {}
    ELSE LET i == CHOOSE x \in b : TRUE
         IN  Add(Shl(a, i), Mul(a, b \ {i}))

\* a / b for b a power of two
Div(a, b) == Shr(a, CHOOSE x \in b : TRUE)

\* frequently used literals
W1 == U(1)
W2 == U(2)
W3 == U(3)
W4 == U(4)
W8 == U(8)

\* src/rust/src/memory_stream.rs:19-24
EXPANSION_CHUNK_SIZE == U(1048576)
PAGE_SIZE == U(4096)
PAGE_SHIFT == 12
PAGE_MASK == Sub(PAGE_SIZE, W1)

\* ------------------------------------------------------------------------
\* Backing Store (MemoryStream).  The struct is the record
\*   [pages, pages_len, offset, size, physical_max_memory_size, swap_size]
\* pages maps the index of every materialized page (Some) to its content;
\* a page content maps the offsets holding a non-zero byte to that byte,
\* every other offset of a materialized page holds 0.
\* ------------------------------------------------------------------------

\* MemoryStream::new
MemoryStreamNew(size, physical_max_memory_size, swap_size) ==
    LET logical_max == Add(physical_max_memory_size, swap_size)
        page_count == IF logical_max = {} THEN {}
                      ELSE Shr(Sub(Add(logical_max, PAGE_SIZE), W1), PAGE_SHIFT)
    IN  [pages |-> <<>>,
         pages_len |-> page_count,
         offset |-> {},
         size |-> Min(size, logical_max),
         physical_max_memory_size |-> physical_max_memory_size,
         swap_size |-> swap_size]

\* Rust's `let name = value;` and statement order: value is computed once,
\* before Body, and Body sees it under its name
Let(value, Body(_)) == CHOOSE r \in {Body(v) : v \in {value}} : TRUE

\* MemoryStream::logical_max_memory_size
logical_max_memory_size(m) == Add(m.physical_max_memory_size, m.swap_size)

\* ensure_capacity growing by whole chunks past the logical max
ensure_capacity_unclamped(m, required_offset) ==
    IF Less(required_offset, m.size) THEN <<TRUE, m>>
    ELSE IF GreaterEq(required_offset, logical_max_memory_size(m)) THEN <<FALSE, m>>
    ELSE <<TRUE, [m EXCEPT !.size =
                    Shl(Add(Shr(required_offset, 20), W1), 20)]>>

\* ensure_capacity computing the size anew for an offset already covered
ensure_capacity_recomputed(m, required_offset) ==
    IF GreaterEq(required_offset, logical_max_memory_size(m)) THEN <<FALSE, m>>
    ELSE <<TRUE, [m EXCEPT !.size =
                    Min(logical_max_memory_size(m),
                        Shl(Add(Shr(required_offset, 20), W1), 20))]>>

\* ensure_capacity rounding required_offset, not required_offset + 1, up to a chunk
ensure_capacity_off_by_one(m, required_offset) ==
    IF Less(required_offset, m.size) THEN <<TRUE, m>>
    ELSE IF GreaterEq(required_offset, logical_max_memory_size(m)) THEN <<FALSE, m>>
    ELSE <<TRUE, [m EXCEPT !.size =
                    Min(logical_max_memory_size(m),
                        Shl(Shr(Add(required_offset, Sub(EXPANSION_CHUNK_SIZE, W1)), 20),
                            20))]>>

\* MemoryStream::ensure_capacity: <<returned bool, stream afterwards>>
ensure_capacity(m, required_offset) ==
    IF Less(required_offset, m.size) THEN <<TRUE, m>>
    ELSE LET logical_max == logical_max_memory_size(m)
         IN  IF GreaterEq(required_offset, logical_max) THEN <<FALSE, m>>
             ELSE LET new_size ==
                        Min(logical_max,
                            Mul(Div(Sub(Add(Add(required_offset, W1),
                                            EXPANSION_CHUNK_SIZE), W1),
                                    EXPANSION_CHUNK_SIZE),
                                EXPANSION_CHUNK_SIZE))
                  IN  <<TRUE, [m EXCEPT !.size = new_size]>>

\* MemoryStream::read_byte_at
read_byte_at(m, address) ==
    IF GreaterEq(address, m.size) THEN {}
    ELSE LET page_index == Shr(address, PAGE_SHIFT)
             page_off == And(address, PAGE_MASK)
         IN  IF GreaterEq(page_index, m.pages_len) THEN {}
             ELSE IF page_index \in DOMAIN m.pages
                  THEN IF page_off \in DOMAIN m.pages[page_index]
                       THEN m.pages[page_index][page_off]
                       ELSE {}
                  ELSE {}

\* page[page_off] = value on a page content
PageStore(page, page_off, value) ==
    LET dom == IF value = {} THEN DOMAIN page \ {page_off}
               ELSE DOMAIN page \cup {page_off}
    IN  [o \in dom |-> IF o = page_off THEN value ELSE page[o]]

\* PagesStore materializing a page without zeroing it (0xCD left at offset 0)
PagesStoreUnzeroed(pages, page_index, page_off, value) ==
    LET page == IF page_index \in DOMAIN pages THEN pages[page_index]
                ELSE [o \in {{}} |-> U(205)]
    IN  [i \in DOMAIN pages \cup {page_index} |->
            IF i = page_index THEN PageStore(page, page_off, value) ELSE pages[i]]

\* the pages after materializing page_index (if None) and storing one byte
PagesStore(pages, page_index, page_off, value) ==
    LET page == IF page_index \in DOMAIN pages THEN pages[page_index] ELSE <<>>
    IN  [i \in DOMAIN pages \cup {page_index} |->
            IF i = page_index THEN PageStore(page, page_off, value) ELSE pages[i]]

\* write_byte_at leaving the cursor behind the byte it stored
write_byte_at_seeking(m, address, value) ==
    IF GreaterEq(address, logical_max_memory_size(m)) THEN m
    ELSE Let(IF GreaterEq(address, m.size) THEN ensure_capacity(m, address)[2] ELSE m,
             LAMBDA m1 :
             IF GreaterEq(address, m1.size) THEN m1
             ELSE [m1 EXCEPT !.pages = PagesStore(m1.pages, Shr(address, PAGE_SHIFT),
                                                  And(address, PAGE_MASK), value),
                             !.offset = Add(address, W1)])

\* write_byte_at dropping the write past the committed size instead of growing
write_byte_at_no_growth(m, address, value) ==
    IF GreaterEq(address, m.size) THEN m
    ELSE [m EXCEPT !.pages = PagesStore(m.pages, Shr(address, PAGE_SHIFT),
                                        And(address, PAGE_MASK), value)]

\* MemoryStream::write_byte_at: the stream afterwards
write_byte_at(m, address, value) ==
    IF GreaterEq(address, logical_max_memory_size(m)) THEN m
    ELSE Let(IF GreaterEq(address, m.size) THEN ensure_capacity(m, address)[2] ELSE m,
             LAMBDA m1 :
             IF GreaterEq(address, m1.size) THEN m1
             ELSE LET page_index == Shr(address, PAGE_SHIFT)
                      page_off == And(address, PAGE_MASK)
                  IN  IF GreaterEq(page_index, m1.pages_len) THEN m1
                      ELSE [m1 EXCEPT !.pages =
                                PagesStore(m1.pages, page_index, page_off, value)])

\* MemoryStream::read_dword_at
read_dword_at(m, address) ==
    LET b0 == read_byte_at(m, address)
        b1 == read_byte_at(m, Add(address, W1))
        b2 == read_byte_at(m, Add(address, W2))
        b3 == read_byte_at(m, Add(address, W3))
    IN  Or(Or(b0, Shl(b1, 8)), Or(Shl(b2, 16), Shl(b3, 24)))

\* MemoryStream::write_dword_at
write_dword_at(m, address, value) ==
    Let(write_byte_at(m, address, AsU8(value)), LAMBDA m1 :
    Let(write_byte_at(m1, Add(address, W1), AsU8(Shr(value, 8))), LAMBDA m2 :
    Let(write_byte_at(m2, Add(address, W2), AsU8(Shr(value, 16))), LAMBDA m3 :
    write_byte_at(m3, Add(address, W3), AsU8(Shr(value, 24))))))

\* MemoryStream::read_qword_at
read_qword_at(m, address) ==
    LET low == read_dword_at(m, address)
        high == read_dword_at(m, Add(address, W4))
    IN  Or(low, Shl(high, 32))

\* MemoryStream::write_qword_at
write_qword_at(m, address, value) ==
    Let(write_dword_at(m, address, AsU32(value)), LAMBDA m1 :
    write_dword_at(m1, Add(address, W4), AsU32(Shr(value, 32))))

\* MemoryStream::read_short_at
read_short_at(m, address) ==
    LET low == read_byte_at(m, address)
        high == read_byte_at(m, Add(address, W1))
    IN  Or(low, Shl(high, 8))

\* MemoryStream::write_short_at
write_short_at(m, address, value) ==
    Let(write_byte_at(m, address, AsU8(value)), LAMBDA m1 :
    write_byte_at(m1, Add(address, W1), AsU8(Shr(value, 8))))

\* set_offset accepting the logical max itself (> in place of >=)
set_offset_inclusive(m, new_offset) ==
    IF Less(logical_max_memory_size(m), new_offset) THEN <<FALSE, m>>
    ELSE <<TRUE, [m EXCEPT !.offset = new_offset,
                           !.size = IF GreaterEq(new_offset, m.size)
                                    THEN ensure_capacity(m, new_offset)[2].size
                                    ELSE m.size]>>

\* MemoryStream::set_offset: <<returned bool, stream afterwards>>
set_offset(m, new_offset) ==
    IF GreaterEq(new_offset, logical_max_memory_size(m)) THEN <<FALSE, m>>
    ELSE Let(IF GreaterEq(new_offset, m.size) THEN ensure_capacity(m, new_offset)
             ELSE <<TRUE, m>>,
             LAMBDA e :
             IF ~e[1] THEN <<FALSE, e[2]>>
             ELSE <<TRUE, [e[2] EXCEPT !.offset = new_offset]>>)

\* MemoryStream::char (and byte): <<returned byte, stream afterwards>>
char(m) ==
    IF GreaterEq(m.offset, m.size) /\ GreaterEq(m.offset, logical_max_memory_size(m))
    THEN <<{}, m>>
    ELSE Let(IF GreaterEq(m.offset, m.size) THEN ensure_capacity(m, m.offset)[2] ELSE m,
             LAMBDA m1 :
             <<read_byte_at(m1, m1.offset), [m1 EXCEPT !.offset = Add(m1.offset, W1)]>>)

\* MemoryStream::short: <<returned u16, stream afterwards>>
short(m) ==
    Let(char(m), LAMBDA low :
    Let(char(low[2]), LAMBDA high :
    <<Or(low[1], Shl(high[1], 8)), high[2]>>))

\* MemoryStream::dword: <<returned u32, stream afterwards>>
dword(m) ==
    Let(char(m), LAMBDA b0 :
    Let(char(b0[2]), LAMBDA b1 :
    Let(char(b1[2]), LAMBDA b2 :
    Let(char(b2[2]), LAMBDA b3 :
    <<Or(Or(b0[1], Shl(b1[1], 8)), Or(Shl(b2[1], 16), Shl(b3[1], 24))), b3[2]>>))))

\* MemoryStream::qword: <<returned u64, stream afterwards>>
qword(m) ==
    Let(dword(m), LAMBDA low :
    Let(dword(low[2]), LAMBDA high :
    <<Or(low[1], Shl(high[1], 32)), high[2]>>))

\* MemoryStream::write_byte: the stream afterwards
write_byte(m, value) ==
    IF GreaterEq(m.offset, logical_max_memory_size(m)) THEN m
    ELSE Let(write_byte_at(m, m.offset, value), LAMBDA m1 :
         [m1 EXCEPT !.offset = Add(m1.offset, W1)])

\* MemoryStream::write_short
write_short(m, value) ==
    Let(write_byte(m, AsU8(value)), LAMBDA m1 :
    write_byte(m1, AsU8(Shr(value, 8))))

\* MemoryStream::write_dword
write_dword(m, value) ==
    Let(write_byte(m, AsU8(value)), LAMBDA m1 :
    Let(write_byte(m1, AsU8(Shr(value, 8))), LAMBDA m2 :
    Let(write_byte(m2, AsU8(Shr(value, 16))), LAMBDA m3 :
    write_byte(m3, AsU8(Shr(value, 24))))))

\* MemoryStream::write_qword
write_qword(m, value) ==
    Let(write_dword(m, AsU32(value)), LAMBDA m1 :
    write_dword(m1, AsU32(Shr(value, 32))))

\* A byte slice (&[u8], Vec<u8>) is the record [len, at]: its length and
\* the map from the indices holding a non-zero byte to that byte.

\* vec![0u8; len]
Zeros(len) == [len |-> len, at |-> <<>>]

\* &slice[..len]
Prefix(slice, len) ==
    [len |-> len, at |-> [i \in {j \in DOMAIN slice.at : Less(j, len)} |-> slice.at[i]]]

\* out[dst..dst + chunk] = bytes, where bytes maps the indices of that range
\* holding a non-zero byte; the rest of the range becomes 0
SliceStore(at, dst, chunk, bytes) ==
    [i \in {j \in DOMAIN at : Less(j, dst) \/ GreaterEq(j, Add(dst, chunk))}
           \cup DOMAIN bytes |->
        IF i \in DOMAIN bytes THEN bytes[i] ELSE at[i]]

\* from[lo..lo + chunk] re-based at index to
SliceRange(from, lo, chunk, to) ==
    LET taken == {j \in DOMAIN from : GreaterEq(j, lo) /\ Less(j, Add(lo, chunk))}
    IN  [i \in {Add(to, Sub(j, lo)) : j \in taken} |-> from[Add(lo, Sub(i, to))]]

\* a count below 2^31 as a number
RECURSIVE ToNat(_)
ToNat(a) == IF a = {} THEN 0 ELSE LET i == CHOOSE j \in a : TRUE IN 2^i + ToNat(a \ {i})

\* The loops of read_slice_at and write_slice_at over [address, last) run once
\* per page of the range, in rising order.  SlicePages is the page_index of
\* every iteration, SliceAddr the value of addr in the iteration at page_index.
SlicePages(address, last) ==
    LET first == Shr(address, PAGE_SHIFT)
        count == Add(Sub(Shr(Sub(last, W1), PAGE_SHIFT), first), W1)
    IN  {Add(first, U(k)) : k \in 0..(ToNat(count) - 1)}

SliceAddr(address, page_index) ==
    IF Less(Shl(page_index, PAGE_SHIFT), address) THEN address
    ELSE Shl(page_index, PAGE_SHIFT)

\* one iteration of the loop of MemoryStream::read_slice_at: the non-zero
\* bytes it leaves in out[dst..dst + chunk]
read_slice_chunk(m, address, len, page_index) ==
    LET addr == SliceAddr(address, page_index)
        dst == Sub(addr, address)
        page_off == And(addr, PAGE_MASK)
        chunk == Min(Sub(len, dst), Sub(PAGE_SIZE, page_off))
    IN  IF Less(page_index, m.pages_len) /\ Less(addr, m.size)
           /\ page_index \in DOMAIN m.pages
        THEN SliceRange(m.pages[page_index], page_off, chunk, dst)
        ELSE <<>>

\* MemoryStream::read_slice_at over out = &mut buffer[..len]: that slice afterwards
read_slice_at(m, address, len) ==
    IF len = {} THEN Zeros(len)
    ELSE LET iterations == SlicePages(address, Add(address, len)) \cap DOMAIN m.pages
             indices == UNION {DOMAIN read_slice_chunk(m, address, len, p) : p \in iterations}
         IN  [len |-> len,
              at |-> [i \in indices |->
                        read_slice_chunk(m, address, len,
                                         Shr(Add(address, i), PAGE_SHIFT))[i]]]

\* one iteration of the loop of MemoryStream::write_slice_at: the page afterwards
write_slice_chunk(pages, address, last, data, page_index) ==
    LET addr == SliceAddr(address, page_index)
        src == Sub(addr, address)
        page_off == And(addr, PAGE_MASK)
        chunk == Min(Sub(last, addr), Sub(PAGE_SIZE, page_off))
        page == IF page_index \in DOMAIN pages THEN pages[page_index] ELSE <<>>
    IN  SliceStore(page, page_off, chunk, SliceRange(data.at, src, chunk, page_off))

\* the loop of MemoryStream::write_slice_at: the pages afterwards (the loop
\* breaks at the first page_index >= pages.len())
write_slice_loop(pages, pages_len, address, last, data) ==
    LET iterations == {p \in SlicePages(address, last) : Less(p, pages_len)}
    IN  [i \in DOMAIN pages \cup iterations |->
            IF i \in iterations THEN write_slice_chunk(pages, address, last, data, i)
            ELSE pages[i]]

\* MemoryStream::write_slice_at: the stream afterwards
write_slice_at(m, address, data) ==
    IF data.len = {} THEN m
    ELSE Let(logical_max_memory_size(m), LAMBDA logical_max :
         IF GreaterEq(address, logical_max) THEN m
         ELSE Let(Min(data.len, Sub(logical_max, address)), LAMBDA write_len :
              IF write_len = {} THEN m
              ELSE Let(Add(address, write_len), LAMBDA end :
                   Let(IF GreaterEq(end, m.size) THEN ensure_capacity(m, end)[2] ELSE m,
                       LAMBDA m1 :
                       [m1 EXCEPT !.pages =
                            write_slice_loop(m1.pages, m1.pages_len, address,
                                             Add(address, write_len), data)]))))

\* self.size.saturating_sub(self.offset)
saturating_sub(a, b) == IF Less(a, b) THEN {} ELSE Sub(a, b)

\* MemoryStream::read: <<returned Vec<u8>, stream afterwards>>
read(m, length) ==
    IF length = {} THEN <<Zeros({}), m>>
    ELSE Let(Add(m.offset, length), LAMBDA end_offset :
         Let(IF Less(m.size, end_offset) THEN ensure_capacity(m, end_offset)[2] ELSE m,
             LAMBDA m1 :
             Let(Min(length, saturating_sub(m1.size, m1.offset)), LAMBDA actual_len :
             <<[len |-> length,
                at |-> IF actual_len # {} THEN read_slice_at(m1, m1.offset, actual_len).at
                       ELSE <<>>],
               [m1 EXCEPT !.offset = Add(m1.offset, length)]>>)))

\* MemoryStream::write: the stream afterwards
write(m, value) ==
    IF value.len = {} THEN m
    ELSE Let(logical_max_memory_size(m), LAMBDA logical_max :
         IF GreaterEq(m.offset, logical_max) THEN m
         ELSE Let(Min(value.len, Sub(logical_max, m.offset)), LAMBDA write_len :
              Let(Add(m.offset, write_len), LAMBDA end_offset :
              Let(IF GreaterEq(end_offset, m.size) THEN ensure_capacity(m, end_offset)[2]
                  ELSE m,
                  LAMBDA m1 :
                  Let(write_slice_at(m1, m1.offset, Prefix(value, write_len)), LAMBDA m2 :
                  [m2 EXCEPT !.offset = Add(m2.offset, write_len)])))))

\* const CHUNK: usize = 64 * 1024 of MemoryStream::copy_internal
CHUNK == U(65536)

\* the overlapping (back to front) loop of MemoryStream::copy_internal
RECURSIVE copy_backward(_, _, _, _)
copy_backward(m, src_offset, dest_offset, remaining) ==
    IF remaining = {} THEN m
    ELSE Let(Min(CHUNK, remaining), LAMBDA chunk :
         Let(Sub(remaining, chunk), LAMBDA start :
         Let(read_slice_at(m, Add(src_offset, start), chunk), LAMBDA buffer :
         copy_backward(write_slice_at(m, Add(dest_offset, start), buffer),
                       src_offset, dest_offset, Sub(remaining, chunk)))))

\* the front to back loop of MemoryStream::copy_internal
RECURSIVE copy_forward(_, _, _, _, _)
copy_forward(m, src_offset, dest_offset, offset, max_size) ==
    IF GreaterEq(offset, max_size) THEN m
    ELSE Let(Min(CHUNK, Sub(max_size, offset)), LAMBDA chunk :
         Let(read_slice_at(m, Add(src_offset, offset), chunk), LAMBDA buffer :
         copy_forward(write_slice_at(m, Add(dest_offset, offset), buffer),
                      src_offset, dest_offset, Add(offset, chunk), max_size)))

\* MemoryStream::copy_internal: the stream afterwards
copy_internal(m, src_offset, dest_offset, size) ==
    IF size = {} THEN m
    ELSE Let(logical_max_memory_size(m), LAMBDA logical_max :
         IF GreaterEq(src_offset, logical_max) \/ GreaterEq(dest_offset, logical_max) THEN m
         ELSE Let(Min(size, Min(Sub(logical_max, src_offset),
                                Sub(logical_max, dest_offset))), LAMBDA max_size :
              IF max_size = {} \/ src_offset = dest_offset THEN m
              ELSE Let(ensure_capacity(m, Add(src_offset, max_size))[2], LAMBDA m1 :
                   Let(ensure_capacity(m1, Add(dest_offset, max_size))[2], LAMBDA m2 :
                   IF Less(src_offset, dest_offset)
                      /\ Less(dest_offset, Add(src_offset, max_size))
                   THEN copy_backward(m2, src_offset, dest_offset, max_size)
                   ELSE copy_forward(m2, src_offset, dest_offset, {}, max_size)))))

\* MemoryStream::copy_from_external: the stream afterwards
copy_from_external(m, src, dest_offset) ==
    IF src.len = {} THEN m
    ELSE IF GreaterEq(dest_offset, logical_max_memory_size(m)) THEN m
    ELSE Let(Min(src.len, Sub(logical_max_memory_size(m), dest_offset)), LAMBDA write_len :
         Let(Add(dest_offset, write_len), LAMBDA dest_end :
         Let(IF GreaterEq(dest_end, m.size) THEN ensure_capacity(m, dest_end)[2] ELSE m,
             LAMBDA m1 :
             write_slice_at(m1, dest_offset, Prefix(src, write_len)))))

\* ------------------------------------------------------------------------
\* Register & Translation Unit (MemoryAccessor)
\* ------------------------------------------------------------------------

VARIABLES
    registers,              \* [i64; 26]
    registers_allocated,    \* [bool; 26]
    zero_flag, sign_flag, overflow_flag, carry_flag, parity_flag,
    auxiliary_carry_flag, direction_flag, interrupt_flag,
    instruction_fetch,
    efer,                   \* u64
    control_registers,      \* [u64; 9], indexed 0..8
    memory,                 \* the MemoryStream behind the raw pointer
    ret,                    \* the last call made by the driver and what it returned
    pc,                     \* the driver's position
    booted                  \* number of boot calls the driver has made

regVars == <<registers, registers_allocated>>
flagVars == <<zero_flag, sign_flag, overflow_flag, carry_flag, parity_flag,
              auxiliary_carry_flag, direction_flag, interrupt_flag>>
vars == <<regVars, flagVars, instruction_fetch, efer, control_registers, memory, ret, pc, booted>>

\* src/rust/src/memory_accessor.rs:16
MAX_REGISTER_ADDRESS == 26

\* hexadecimal literals of the page walks
x1 == U(1)
x2 == U(2)
x4 == U(4)
x08 == U(8)
x10 == U(16)
x20 == U(32)
x40 == U(64)
x0E == U(14)
x3 == Mask(0, 1)
x1FF == Mask(0, 8)
x3FF == Mask(0, 9)
xFFF == Mask(0, 11)
x1FFFFF == Mask(0, 20)
x3FFFFF == Mask(0, 21)
x3FFFFFFF == Mask(0, 29)
xFFFFFFFF == Mask(0, 31)
xFFFFF000 == Mask(12, 31)
xFFFFFF000 == Mask(12, 35)
xFFC00000 == Mask(22, 31)
xFFE00000 == Mask(21, 31)
x000FFFFFC0000000 == Mask(30, 51)
xFFFF000000000000 == Mask(48, 63)
xE0000000 == Mask(29, 31)
xE1000000 == Or(Mask(29, 31), {24})
xFEE00000 == Or(Mask(25, 31), Mask(21, 23))
xFEE01000 == Or(xFEE00000, {12})
xFEC00000 == Or(Mask(25, 31), Mask(22, 23))
xFEC00020 == Or(xFEC00000, {5})

\* MemoryAccessor::read_from_memory (non-null memory pointer)
read_from_memory(m, address) == read_byte_at(m, address)

\* MemoryAccessor::write_to_memory (non-null memory pointer)
write_to_memory(m, address, value) == write_byte_at(m, address, value)

\* MemoryAccessor::write_raw_byte
write_raw_byte(m, address, value) == write_to_memory(m, address, value)

\* MemoryAccessor::read_physical_8
read_physical_8(m, address) == read_from_memory(m, address)

\* MemoryAccessor::read_physical_16
read_physical_16(m, address) ==
    LET lo == read_from_memory(m, address)
        hi == read_from_memory(m, Add(address, W1))
    IN  Or(Shl(hi, 8), lo)

\* MemoryAccessor::read_physical_32
read_physical_32(m, address) ==
    LET b0 == read_from_memory(m, address)
        b1 == read_from_memory(m, Add(address, W1))
        b2 == read_from_memory(m, Add(address, W2))
        b3 == read_from_memory(m, Add(address, W3))
    IN  Or(Or(b0, Shl(b1, 8)), Or(Shl(b2, 16), Shl(b3, 24)))

\* MemoryAccessor::write_physical_32
write_physical_32(m, address, value) ==
    Let(write_to_memory(m, address, AsU8(value)), LAMBDA m1 :
    Let(write_to_memory(m1, Add(address, W1), AsU8(Shr(value, 8))), LAMBDA m2 :
    Let(write_to_memory(m2, Add(address, W2), AsU8(Shr(value, 16))), LAMBDA m3 :
    write_to_memory(m3, Add(address, W3), AsU8(Shr(value, 24))))))

\* MemoryAccessor::read_physical_64
read_physical_64(m, address) ==
    LET low == read_physical_32(m, address)
        high == read_physical_32(m, Add(address, W4))
    IN  Or(low, Shl(high, 32))

\* MemoryAccessor::write_physical_64
write_physical_64(m, address, value) ==
    Let(write_physical_32(m, address, AsU32(value)), LAMBDA m1 :
    write_physical_32(m1, Add(address, W4), AsU32(Shr(value, 32))))

\* a window test that excludes the first address of each window
is_mmio_address_exclusive(address) ==
    \/ Less(xE0000000, address) /\ Less(address, xE1000000)
    \/ Less(xFEE00000, address) /\ Less(address, xFEE01000)
    \/ Less(xFEC00000, address) /\ Less(address, xFEC00020)

\* MemoryAccessor::is_mmio_address
is_mmio_address(address) ==
    \/ GreaterEq(address, xE0000000) /\ Less(address, xE1000000)
    \/ GreaterEq(address, xFEE00000) /\ Less(address, xFEE01000)
    \/ GreaterEq(address, xFEC00000) /\ Less(address, xFEC00020)

\* one entry of the trace of physical accesses a call makes: a page-walk access
Acc(op, address) == [op |-> op, address |-> address, role |-> "walk"]

\* the access to the data at the translated address
DataAcc(op, address) == [op |-> op, address |-> address, role |-> "data"]

\* what a walk returns, with the stream it leaves and the accesses it made
Walk(physical, err, m, log) == [physical |-> physical, err |-> err, memory |-> m, log |-> log]

\* a not-present fault code that leaves the user bit out
PfNotPresentNoUser(is_write, is_user) ==
    LET err == IF is_write THEN x2 ELSE {}
    IN  Or(Shl(x0E, 16), err)

\* (0x0E << 16) | err of a not-present fault
PfNotPresent(is_write, is_user) ==
    LET err == Or(IF is_write THEN x2 ELSE {}, IF is_user THEN x4 ELSE {})
    IN  Or(Shl(x0E, 16), err)

\* the code of a protection fault in place of the reserved-bits code
PfProtection == Or(Shl(x0E, 16), x1)

\* the reserved-bits error code without the page-fault vector above it
PfReservedBare == Or(x08, IF instruction_fetch THEN x10 ELSE {})

\* (0x0E << 16) | err of the legacy reserved-bits check
PfReserved ==
    LET err == Or(x08, IF instruction_fetch THEN x10 ELSE {})
    IN  Or(Shl(x0E, 16), err)

\* (0x0E << 16) | err of a failed user-access check
PfUser(is_write) ==
    LET err == Or(Or(IF is_write THEN x2 ELSE {}, x4), x1)
    IN  Or(Shl(x0E, 16), err)

\* (0x0E << 16) | err of a failed write-access check
PfWrite(is_user) ==
    LET err == Or(Or(x2, IF is_user THEN x4 ELSE {}), x1)
    IN  Or(Shl(x0E, 16), err)

\* a leaf update that adds 0x20 to the entry instead of setting bit 5
LeafUpdatedByAddition(entry, is_write) ==
    IF is_write THEN Or(Add(entry, x20), x40) ELSE Add(entry, x20)

\* a leaf update that sets the dirty bit and never the accessed bit
LeafUpdatedNoAccessed(entry, is_write) == IF is_write THEN Or(entry, x40) ELSE entry

\* a leaf update that never sets the dirty bit
LeafUpdatedNoDirty(entry, is_write) == Or(entry, x20)

\* the leaf entry with accessed set, and dirty when is_write
LeafUpdated(entry, is_write) ==
    LET accessed == Or(entry, x20)
    IN  IF is_write THEN Or(accessed, x40) ELSE accessed

\* a 4 KiB page address that keeps every bit of the entry above the offset
Physical4K64Unmasked(pte, offset) == Add(And(pte, Not(xFFF)), offset)

\* a 4 KiB page address that keeps the entry's base bits 35:32
Physical4K64Wide(pte, offset) == Add(And(pte, xFFFFFF000), offset)

\* the physical address of a 4 KiB page of the PAE and IA-32e walks
Physical4K64(pte, offset) ==
    LET phys == Add(And(pte, xFFFFFF000), offset)
    IN  And(phys, xFFFFFFFF)

\* MemoryAccessor::translate_linear_32
translate_linear_32(m, linear, is_write, is_user, pse) ==
    LET cr3 == And(control_registers[3], xFFFFF000)
        dir_index == And(Shr(linear, 22), x3FF)
        table_index == And(Shr(linear, 12), x3FF)
        offset == And(linear, xFFF)
    IN  Let(And(Add(cr3, Mul(dir_index, W4)), xFFFFFFFF), LAMBDA pde_addr :
        Let(read_physical_32(m, pde_addr), LAMBDA pde :
        LET log1 == <<Acc("read_physical_32", pde_addr)>>
        IN  IF And(pde, x1) = {} THEN Walk(linear, PfNotPresent(is_write, is_user), m, log1)
            ELSE IF And(pde, xFFFFFF000) = {} THEN Walk(linear, PfReserved, m, log1)
            ELSE IF is_user /\ And(pde, x4) = {} THEN Walk(linear, PfUser(is_write), m, log1)
            ELSE IF is_write /\ And(pde, x2) = {} THEN Walk(linear, PfWrite(is_user), m, log1)
            ELSE IF pse /\ And(pde, Shl(x1, 7)) # {}
            THEN LET base == And(pde, xFFC00000)
                     phys == And(Add(base, And(linear, x3FFFFF)), xFFFFFFFF)
                 IN  Let(write_physical_32(m, pde_addr, AsU32(LeafUpdated(pde, is_write))),
                         LAMBDA m1 :
                         Walk(phys, {}, m1, log1 \o <<Acc("write_physical_32", pde_addr)>>))
            ELSE
            Let(And(Add(And(pde, xFFFFF000), Mul(table_index, W4)), xFFFFFFFF), LAMBDA pte_addr :
            Let(read_physical_32(m, pte_addr), LAMBDA pte :
            LET log2 == log1 \o <<Acc("read_physical_32", pte_addr)>>
            IN  IF And(pte, x1) = {} THEN Walk(linear, PfNotPresent(is_write, is_user), m, log2)
                ELSE IF And(pte, xFFFFFF000) = {} THEN Walk(linear, PfReserved, m, log2)
                ELSE IF is_user /\ And(pte, x4) = {} THEN Walk(linear, PfUser(is_write), m, log2)
                ELSE IF is_write /\ And(pte, x2) = {} THEN Walk(linear, PfWrite(is_user), m, log2)
                ELSE
                Let(write_physical_32(m, pde_addr, AsU32(Or(pde, x20))), LAMBDA m1 :
                Let(write_physical_32(m1, pte_addr, AsU32(LeafUpdated(pte, is_write))), LAMBDA m2 :
                LET phys == And(Add(And(pte, xFFFFF000), offset), xFFFFFFFF)
                IN  Walk(phys, {}, m2,
                         log2 \o <<Acc("write_physical_32", pde_addr),
                                   Acc("write_physical_32", pte_addr)>>)))))))

\* MemoryAccessor::translate_linear_pae
translate_linear_pae(m, linear, is_write, is_user) ==
    LET cr3 == And(control_registers[3], xFFFFF000)
        pdp_index == And(Shr(linear, 30), x3)
        dir_index == And(Shr(linear, 21), x1FF)
        table_index == And(Shr(linear, 12), x1FF)
        offset == And(linear, xFFF)
    IN  Let(And(Add(cr3, Mul(pdp_index, W8)), xFFFFFFFF), LAMBDA pdpte_addr :
        Let(read_physical_64(m, pdpte_addr), LAMBDA pdpte :
        LET log1 == <<Acc("read_physical_64", pdpte_addr)>>
        IN  IF And(pdpte, x1) = {} THEN Walk(linear, PfNotPresent(is_write, is_user), m, log1)
            ELSE IF is_user /\ And(pdpte, x4) = {} THEN Walk(linear, PfUser(is_write), m, log1)
            ELSE IF is_write /\ And(pdpte, x2) = {} THEN Walk(linear, PfWrite(is_user), m, log1)
            ELSE
            Let(write_physical_64(m, pdpte_addr, Or(pdpte, Shl(x1, 5))), LAMBDA m1 :
            Let(And(Add(And(pdpte, xFFFFFF000), Mul(dir_index, W8)), xFFFFFFFF), LAMBDA pde_addr :
            Let(read_physical_64(m1, pde_addr), LAMBDA pde :
            LET log2 == log1 \o <<Acc("write_physical_64", pdpte_addr),
                                  Acc("read_physical_64", pde_addr)>>
                is_large == And(pde, Shl(x1, 7)) # {}
            IN  IF And(pde, x1) = {} THEN Walk(linear, PfNotPresent(is_write, is_user), m1, log2)
                ELSE IF is_user /\ And(pde, x4) = {} THEN Walk(linear, PfUser(is_write), m1, log2)
                ELSE IF is_write /\ And(pde, x2) = {} THEN Walk(linear, PfWrite(is_user), m1, log2)
                ELSE IF is_large
                THEN Let(LeafUpdated(pde, is_write), LAMBDA pde_upd :
                     Let(write_physical_64(m1, pde_addr, pde_upd), LAMBDA m2 :
                     LET base == And(pde_upd, xFFE00000)
                         phys == And(Add(base, And(linear, x1FFFFF)), xFFFFFFFF)
                     IN  Walk(phys, {}, m2, log2 \o <<Acc("write_physical_64", pde_addr)>>)))
                ELSE
                Let(And(Add(And(pde, xFFFFFF000), Mul(table_index, W8)), xFFFFFFFF),
                    LAMBDA pte_addr :
                Let(read_physical_64(m1, pte_addr), LAMBDA pte :
                LET log3 == log2 \o <<Acc("read_physical_64", pte_addr)>>
                IN  IF And(pte, x1) = {}
                    THEN Walk(linear, PfNotPresent(is_write, is_user), m1, log3)
                    ELSE IF is_user /\ And(pte, x4) = {}
                    THEN Walk(linear, PfUser(is_write), m1, log3)
                    ELSE IF is_write /\ And(pte, x2) = {}
                    THEN Walk(linear, PfWrite(is_user), m1, log3)
                    ELSE
                    Let(write_physical_64(m1, pde_addr, Or(pde, x20)), LAMBDA m2 :
                    Let(write_physical_64(m2, pte_addr, LeafUpdated(pte, is_write)), LAMBDA m3 :
                    Walk(Physical4K64(pte, offset), {}, m3,
                         log3 \o <<Acc("write_physical_64", pde_addr),
                                   Acc("write_physical_64", pte_addr)>>))))))))))

\* MemoryAccessor::translate_linear_ia32e
translate_linear_ia32e(m, linear, is_write, is_user) ==
    LET cr3 == And(control_registers[3], xFFFFF000)
        pml4_index == And(Shr(linear, 39), x1FF)
        pdpt_index == And(Shr(linear, 30), x1FF)
        dir_index == And(Shr(linear, 21), x1FF)
        table_index == And(Shr(linear, 12), x1FF)
        offset == And(linear, xFFF)
    IN  Let(And(Add(cr3, Mul(pml4_index, W8)), xFFFFFFFF), LAMBDA pml4e_addr :
        Let(read_physical_64(m, pml4e_addr), LAMBDA pml4e :
        LET log1 == <<Acc("read_physical_64", pml4e_addr)>>
        IN  IF And(pml4e, x1) = {} THEN Walk(linear, PfNotPresent(is_write, is_user), m, log1)
            ELSE IF is_user /\ And(pml4e, x4) = {} THEN Walk(linear, PfUser(is_write), m, log1)
            ELSE IF is_write /\ And(pml4e, x2) = {} THEN Walk(linear, PfWrite(is_user), m, log1)
            ELSE
            Let(write_physical_64(m, pml4e_addr, Or(pml4e, Shl(x1, 5))), LAMBDA m1 :
            Let(And(Add(And(pml4e, xFFFFFF000), Mul(pdpt_index, W8)), xFFFFFFFF),
                LAMBDA pdpte_addr :
            Let(read_physical_64(m1, pdpte_addr), LAMBDA pdpte :
            LET log2 == log1 \o <<Acc("write_physical_64", pml4e_addr),
                                  Acc("read_physical_64", pdpte_addr)>>
            IN  IF And(pdpte, x1) = {}
                THEN Walk(linear, PfNotPresent(is_write, is_user), m1, log2)
                ELSE IF is_user /\ And(pdpte, x4) = {}
                THEN Walk(linear, PfUser(is_write), m1, log2)
                ELSE IF is_write /\ And(pdpte, x2) = {}
                THEN Walk(linear, PfWrite(is_user), m1, log2)
                ELSE
                Let(write_physical_64(m1, pdpte_addr, Or(pdpte, Shl(x1, 5))), LAMBDA m2 :
                LET log3 == log2 \o <<Acc("write_physical_64", pdpte_addr)>>
                IN  IF And(pdpte, Shl(x1, 7)) # {}
                    THEN Let(LeafUpdated(pdpte, is_write), LAMBDA pdpte_upd :
                         Let(write_physical_64(m2, pdpte_addr, pdpte_upd), LAMBDA m3 :
                         LET base == And(pdpte, x000FFFFFC0000000)
                             phys == And(Add(base, And(linear, x3FFFFFFF)), xFFFFFFFF)
                         IN  Walk(phys, {}, m3,
                                  log3 \o <<Acc("write_physical_64", pdpte_addr)>>)))
                    ELSE
                    Let(And(Add(And(pdpte, xFFFFFF000), Mul(dir_index, W8)), xFFFFFFFF),
                        LAMBDA pde_addr :
                    Let(read_physical_64(m2, pde_addr), LAMBDA pde :
                    LET log4 == log3 \o <<Acc("read_physical_64", pde_addr)>>
                    IN  IF And(pde, x1) = {}
                        THEN Walk(linear, PfNotPresent(is_write, is_user), m2, log4)
                        ELSE IF is_user /\ And(pde, x4) = {}
                        THEN Walk(linear, PfUser(is_write), m2, log4)
                        ELSE IF is_write /\ And(pde, x2) = {}
                        THEN Walk(linear, PfWrite(is_user), m2, log4)
                        ELSE IF And(pde, Shl(x1, 7)) # {}
                        THEN Let(LeafUpdated(pde, is_write), LAMBDA pde_upd :
                             Let(write_physical_64(m2, pde_addr, pde_upd), LAMBDA m3 :
                             LET base == And(pde, xFFE00000)
                                 phys == And(Add(base, And(linear, x1FFFFF)), xFFFFFFFF)
                             IN  Walk(phys, {}, m3,
                                      log4 \o <<Acc("write_physical_64", pde_addr)>>)))
                        ELSE
                        Let(And(Add(And(pde, xFFFFFF000), Mul(table_index, W8)), xFFFFFFFF),
                            LAMBDA pte_addr :
                        Let(read_physical_64(m2, pte_addr), LAMBDA pte :
                        LET log5 == log4 \o <<Acc("read_physical_64", pte_addr)>>
                        IN  IF And(pte, x1) = {}
                            THEN Walk(linear, PfNotPresent(is_write, is_user), m2, log5)
                            ELSE IF is_user /\ And(pte, x4) = {}
                            THEN Walk(linear, PfUser(is_write), m2, log5)
                            ELSE IF is_write /\ And(pte, x2) = {}
                            THEN Walk(linear, PfWrite(is_user), m2, log5)
                            ELSE
                            Let(write_physical_64(m2, pde_addr, Or(pde, x20)), LAMBDA m3 :
                            Let(write_physical_64(m3, pte_addr, LeafUpdated(pte, is_write)),
                                LAMBDA m4 :
                            Walk(Physical4K64(pte, offset), {}, m4,
                                 log5 \o <<Acc("write_physical_64", pde_addr),
                                           Acc("write_physical_64", pte_addr)>>)))))))))))))

\* the CR2 value recorded on a page fault
FaultAddress(linear, pae, lme) ==
    IF pae /\ lme
    THEN IF And(linear, Shl(x1, 47)) # {}
         THEN Or(linear, xFFFF000000000000)
         ELSE linear
    ELSE And(linear, xFFFFFFFF)

\* a dispatch that tests EFER.LME before CR4.PAE
DispatchLmeFirst(m, linear, is_write, is_user, pse, pae, lme) ==
    IF lme
    THEN translate_linear_ia32e(m, linear, is_write, is_user)
    ELSE IF pae
         THEN translate_linear_pae(m, linear, is_write, is_user)
         ELSE translate_linear_32(m, linear, is_write, is_user, pse)

\* the walk translate_linear dispatches to
Dispatch(m, linear, is_write, is_user, pse, pae, lme) ==
    IF pae
    THEN IF lme
         THEN translate_linear_ia32e(m, linear, is_write, is_user)
         ELSE translate_linear_pae(m, linear, is_write, is_user)
    ELSE translate_linear_32(m, linear, is_write, is_user, pse)

\* a translation that ignores linear_mask
MaskLinearIgnored(linear, linear_mask) == linear

\* the linear address limited to the caller's address width
MaskLinear(linear, linear_mask) == And(linear, linear_mask)

\* MemoryAccessor::translate_linear: the walk result and the control registers afterwards
translate_linear(m, linear_arg, is_write, is_user, paging_enabled, linear_mask) ==
    Let(MaskLinear(linear_arg, linear_mask), LAMBDA linear :
        IF ~paging_enabled
        THEN [walk |-> Walk(linear, {}, m, <<>>), control_registers |-> control_registers]
        ELSE LET cr4 == control_registers[4]
                 pse == And(cr4, Shl(x1, 4)) # {}
                 pae == And(cr4, Shl(x1, 5)) # {}
                 lme == And(efer, Shl(x1, 8)) # {}
             IN  Let(Dispatch(m, linear, is_write, is_user, pse, pae, lme), LAMBDA w :
                     [walk |-> w,
                      control_registers |->
                          IF w.err # {}
                          THEN [control_registers EXCEPT ![2] = FaultAddress(linear, pae, lme)]
                          ELSE control_registers]))

\* what a translated access returns, with the state it leaves
Access(value, err, m, crs, log) ==
    [value |-> value, err |-> err, memory |-> m, control_registers |-> crs, log |-> log]

\* the sized physical read read_memory_{8,16,32,64} delegates to
ReadPhysical(width, m, physical) ==
    CASE width = 8 -> read_physical_8(m, physical)
      [] width = 16 -> read_physical_16(m, physical)
      [] width = 32 -> read_physical_32(m, physical)
      [] width = 64 -> read_physical_64(m, physical)

\* the name of that read in the access trace
ReadOp(width) ==
    CASE width = 8 -> "read_physical_8"
      [] width = 16 -> "read_physical_16"
      [] width = 32 -> "read_physical_32"
      [] width = 64 -> "read_physical_64"

\* MemoryAccessor::read_memory_8 / _16 / _32 / _64
read_memory(width, m, linear, is_user, paging_enabled, linear_mask) ==
    Let(translate_linear(m, linear, FALSE, is_user, paging_enabled, linear_mask), LAMBDA t :
        LET physical == t.walk.physical
            err == t.walk.err
        IN  IF err # {} THEN Access({}, err, t.walk.memory, t.control_registers, t.walk.log)
            ELSE IF is_mmio_address(physical)
            THEN Access({}, xFFFFFFFF, t.walk.memory, t.control_registers, t.walk.log)
            ELSE Access(ReadPhysical(width, t.walk.memory, physical), {}, t.walk.memory,
                        t.control_registers,
                        t.walk.log \o <<DataAcc(ReadOp(width), physical)>>))

\* the stores write_memory_{8,16,32,64} perform at the physical address
WritePhysical(width, m, physical, value) ==
    CASE width = 8 -> write_raw_byte(m, physical, value)
      [] width = 16 ->
            Let(write_raw_byte(m, physical, AsU8(And(value, Mask(0, 7)))), LAMBDA m1 :
            write_raw_byte(m1, Add(physical, W1), AsU8(And(Shr(value, 8), Mask(0, 7)))))
      [] width = 32 -> write_physical_32(m, physical, value)
      [] width = 64 -> write_physical_64(m, physical, value)

\* the names of those stores in the access trace
WriteOps(width, physical) ==
    CASE width = 8 -> <<DataAcc("write_raw_byte", physical)>>
      [] width = 16 -> <<DataAcc("write_raw_byte", physical),
                         DataAcc("write_raw_byte", Add(physical, W1))>>
      [] width = 32 -> <<DataAcc("write_physical_32", physical)>>
      [] width = 64 -> <<DataAcc("write_physical_64", physical)>>

\* write_memory with the store issued before the error code is looked at
write_memory_store_first(width, m, linear, value, is_user, paging_enabled, linear_mask) ==
    Let(translate_linear(m, linear, TRUE, is_user, paging_enabled, linear_mask), LAMBDA t :
        Access({}, t.walk.err,
               WritePhysical(width, t.walk.memory, t.walk.physical, value),
               t.control_registers, t.walk.log \o WriteOps(width, t.walk.physical)))

\* MemoryAccessor::write_memory_8 / _16 / _32 / _64
write_memory(width, m, linear, value, is_user, paging_enabled, linear_mask) ==
    Let(translate_linear(m, linear, TRUE, is_user, paging_enabled, linear_mask), LAMBDA t :
        LET physical == t.walk.physical
            err == t.walk.err
        IN  IF err # {} THEN Access({}, err, t.walk.memory, t.control_registers, t.walk.log)
            ELSE IF is_mmio_address(physical)
            THEN Access({}, xFFFFFFFF, t.walk.memory, t.control_registers, t.walk.log)
            ELSE Access({}, {}, WritePhysical(width, t.walk.memory, physical, value),
                        t.control_registers,
                        t.walk.log \o WriteOps(width, physical)))

\* ------------------------------------------------------------------------
\* Register file and flags (MemoryAccessor).  An i64 is a word in two's
\* complement: bit 63 is its sign.  A register address is a small natural
\* number.  The register operations take and return the fields they touch,
\* the record [registers, registers_allocated, memory].
\* ------------------------------------------------------------------------

\* masks of the sized register views
xFF == Mask(0, 7)
xFF00 == Mask(8, 15)
xFFFF == Mask(0, 15)

\* the i64 -1
MinusOne == Mask(0, 63)

\* wrapping negation of an i64
Neg(a) == Sub({}, a)

\* the i64 comparison a < b
SLess(a, b) ==
    IF (63 \in a) # (63 \in b) THEN 63 \in a ELSE Less(a, b)

\* MemoryAccessor::is_register_address
is_register_address(address) == address \in 0..13 \/ address \in 16..25

\* MemoryAccessor::is_gpr_address
is_gpr_address(address) == address \in 0..7 \/ address \in 16..24

\* the fields of the accessor the register operations work on
Self == [registers |-> registers, registers_allocated |-> registers_allocated,
         memory |-> memory]

\* an allocation that ignores safe
allocate_unsafe(a, address, size, safe) ==
    [result |-> TRUE,
     self |-> [a EXCEPT
         !.registers_allocated = [i \in 0..(MAX_REGISTER_ADDRESS - 1) |->
             IF i >= address /\ i < address + size /\ is_register_address(i)
             THEN TRUE ELSE a.registers_allocated[i]],
         !.registers = [i \in 0..(MAX_REGISTER_ADDRESS - 1) |->
             IF i >= address /\ i < address + size /\ is_register_address(i)
             THEN {} ELSE a.registers[i]]]]

\* a safe allocation that skips the slots of the run that are already allocated
allocate_skipping(a, address, size, safe) ==
    IF is_register_address(address)
    THEN IF safe /\ a.registers_allocated[address]
         THEN [result |-> FALSE, self |-> a]
         ELSE LET run == {addr \in address..(address + size - 1) :
                             /\ addr < MAX_REGISTER_ADDRESS /\ is_register_address(addr)
                             /\ ~(safe /\ a.registers_allocated[addr])}
              IN  [result |-> TRUE,
                   self |-> [a EXCEPT
                       !.registers_allocated = [i \in 0..(MAX_REGISTER_ADDRESS - 1) |->
                           IF i \in run THEN TRUE ELSE a.registers_allocated[i]],
                       !.registers = [i \in 0..(MAX_REGISTER_ADDRESS - 1) |->
                           IF i \in run THEN {} ELSE a.registers[i]]]]
    ELSE [result |-> TRUE, self |-> a]

\* MemoryAccessor::allocate: the returned flag and the accessor afterwards
allocate(a, address, size, safe) ==
    IF is_register_address(address)
    THEN IF safe /\ a.registers_allocated[address]
         THEN [result |-> FALSE, self |-> a]
         ELSE LET run == {addr \in address..(address + size - 1) :
                             addr < MAX_REGISTER_ADDRESS /\ is_register_address(addr)}
              IN  [result |-> TRUE,
                   self |-> [a EXCEPT
                       !.registers_allocated = [i \in 0..(MAX_REGISTER_ADDRESS - 1) |->
                           IF i \in run THEN TRUE ELSE a.registers_allocated[i]],
                       !.registers = [i \in 0..(MAX_REGISTER_ADDRESS - 1) |->
                           IF i \in run THEN {} ELSE a.registers[i]]]]
    ELSE [result |-> TRUE, self |-> a]

\* MemoryAccessor::fetch
fetch(a, address) ==
    IF is_register_address(address) /\ address < MAX_REGISTER_ADDRESS
    THEN a.registers[address]
    ELSE read_byte_at(a.memory, U(address))

\* MemoryAccessor::fetch_by_size
fetch_by_size(a, address, size) ==
    LET value == fetch(a, address)
    IN  CASE size = 8 -> And(value, xFF)
          [] size = 16 -> And(value, xFFFF)
          [] size = 32 -> And(value, xFFFFFFFF)
          [] OTHER -> value

\* MemoryAccessor::try_to_fetch
try_to_fetch(a, address) ==
    IF is_register_address(address) /\ address < MAX_REGISTER_ADDRESS
    THEN IF ~a.registers_allocated[address] THEN MinusOne
         ELSE a.registers[address]
    ELSE read_byte_at(a.memory, U(address))

\* the allocated flags with one more slot set
Allocated(a, address) == [a.registers_allocated EXCEPT ![address] = TRUE]

\* the memory branch of write_by_size: size / 8 bytes, lowest first
WriteBytes(m, address, value, size) ==
    LET byte(i) == AsU8(And(Shr(value, i * 8), xFF))
        m1 == IF size >= 8 THEN write_byte_at(m, U(address), byte(0)) ELSE m
        m2 == IF size >= 16 THEN write_byte_at(m1, U(address + 1), byte(1)) ELSE m1
        m4 == IF size >= 32
              THEN write_byte_at(write_byte_at(m2, U(address + 2), byte(2)),
                                 U(address + 3), byte(3))
              ELSE m2
    IN  IF size >= 64
        THEN write_byte_at(write_byte_at(write_byte_at(write_byte_at(m4,
                 U(address + 4), byte(4)), U(address + 5), byte(5)),
                 U(address + 6), byte(6)), U(address + 7), byte(7))
        ELSE m4

\* a sized write that replaces the whole container at every size
write_by_size_whole(a, address, value, size) ==
    IF is_register_address(address) /\ address < MAX_REGISTER_ADDRESS
    THEN [a EXCEPT !.registers_allocated = Allocated(a, address),
                   !.registers = [a.registers EXCEPT ![address] = value]]
    ELSE [a EXCEPT !.memory = WriteBytes(a.memory, address, value, size)]

\* MemoryAccessor::write_by_size
write_by_size(a, address, value, size) ==
    IF is_register_address(address) /\ address < MAX_REGISTER_ADDRESS
    THEN LET current == a.registers[address]
             new_value ==
                 CASE size = 8 -> Or(And(current, Not(xFF)), And(value, xFF))
                   [] size = 16 -> Or(And(current, Not(xFFFF)), And(value, xFFFF))
                   [] size = 32 -> And(value, xFFFFFFFF)
                   [] OTHER -> value
         IN  [a EXCEPT !.registers_allocated = Allocated(a, address),
                       !.registers = [a.registers EXCEPT ![address] =
                           IF is_gpr_address(address) THEN new_value ELSE value]]
    ELSE [a EXCEPT !.memory = WriteBytes(a.memory, address, value, size)]

\* MemoryAccessor::write_16bit
write_16bit(a, address, value) == write_by_size(a, address, value, 16)

\* a high-byte write that takes 16 bits of the value
write_to_high_bit_wide(a, address, value) ==
    IF is_register_address(address) /\ address < MAX_REGISTER_ADDRESS
    THEN [a EXCEPT !.registers_allocated = Allocated(a, address),
                   !.registers = [a.registers EXCEPT ![address] =
                       Or(And(a.registers[address], Not(xFF00)),
                          Shl(And(value, xFFFF), 8))]]
    ELSE a

\* MemoryAccessor::write_to_high_bit
write_to_high_bit(a, address, value) ==
    IF is_register_address(address) /\ address < MAX_REGISTER_ADDRESS
    THEN LET current == a.registers[address]
             new_value == Or(And(current, Not(xFF00)), Shl(And(value, xFF), 8))
         IN  [a EXCEPT !.registers_allocated = Allocated(a, address),
                       !.registers = [a.registers EXCEPT ![address] = new_value]]
    ELSE a

\* a low-byte write that leaves the allocated flag alone
write_to_low_bit_unmarked(a, address, value) ==
    IF is_register_address(address) /\ address < MAX_REGISTER_ADDRESS
    THEN [a EXCEPT !.registers = [a.registers EXCEPT ![address] =
              Or(And(a.registers[address], Not(xFF)), And(value, xFF))]]
    ELSE a

\* MemoryAccessor::write_to_low_bit
write_to_low_bit(a, address, value) ==
    IF is_register_address(address) /\ address < MAX_REGISTER_ADDRESS
    THEN LET current == a.registers[address]
             new_value == Or(And(current, Not(xFF)), And(value, xFF))
         IN  [a EXCEPT !.registers_allocated = Allocated(a, address),
                       !.registers = [a.registers EXCEPT ![address] = new_value]]
    ELSE a

\* an addition over the 16-bit view of the slot
add_from_16bit(a, address, value) ==
    write_16bit(a, address, Add(And(fetch(a, address), xFFFF), value))

\* MemoryAccessor::add
add(a, address, value) ==
    LET current == And(fetch(a, address), xFF)
    IN  write_16bit(a, address, Add(current, value))

\* MemoryAccessor::sub
sub(a, address, value) == add(a, address, Neg(value))

\* MemoryAccessor::increment
increment(a, address) == add(a, address, W1)

\* MemoryAccessor::decrement
decrement(a, address) == sub(a, address, W1)

\* the flag fields of the accessor
SelfFlags ==
    [zero_flag |-> zero_flag, sign_flag |-> sign_flag, overflow_flag |-> overflow_flag,
     carry_flag |-> carry_flag, parity_flag |-> parity_flag,
     auxiliary_carry_flag |-> auxiliary_carry_flag, direction_flag |-> direction_flag,
     interrupt_flag |-> interrupt_flag, instruction_fetch |-> instruction_fetch]

\* the low byte as u8, count_ones() % 2 == 0
EvenOnes(value) == Cardinality(AsU8(And(value, xFF))) % 2 = 0

\* a flag update that takes the sign from the container at every width
update_flags_container_sign(f, value, size) ==
    LET masked == IF size >= 64 THEN value ELSE And(value, Mask(0, size - 1))
    IN  [f EXCEPT !.zero_flag = masked = {},
                  !.sign_flag = 63 \in value,
                  !.overflow_flag = size < 64 /\ Mask(size - 1, 63) \cap value
                                                    \notin {{}, Mask(size - 1, 63)},
                  !.parity_flag = EvenOnes(masked)]

\* a flag update that also clears the carry
update_flags_clears_carry(f, value, size) ==
    LET masked == IF size >= 64 THEN value ELSE And(value, Mask(0, size - 1))
    IN  [f EXCEPT !.zero_flag = masked = {},
                  !.sign_flag = (size - 1) \in value,
                  !.overflow_flag = size < 64 /\ Mask(size - 1, 63) \cap value
                                                    \notin {{}, Mask(size - 1, 63)},
                  !.parity_flag = EvenOnes(masked),
                  !.carry_flag = FALSE]

\* MemoryAccessor::update_flags
update_flags(f, value, size) ==
    IF size >= 64
    THEN [f EXCEPT !.zero_flag = value = {},
                   !.sign_flag = SLess(value, {}),
                   !.overflow_flag = FALSE,
                   !.parity_flag = EvenOnes(value)]
    ELSE LET mask == Sub(Shl(x1, size), W1)
             masked == And(value, mask)
             signed_min == Neg(Shl(x1, size - 1))
             signed_max == Sub(Shl(x1, size - 1), W1)
         IN  [f EXCEPT !.zero_flag = masked = {},
                       !.sign_flag = And(masked, Shl(x1, size - 1)) # {},
                       !.overflow_flag = SLess(value, signed_min) \/ SLess(signed_max, value),
                       !.parity_flag = EvenOnes(masked)]

\* the names of the flag setters' fields
FlagNames == {"zero_flag", "sign_flag", "overflow_flag", "carry_flag", "parity_flag",
              "auxiliary_carry_flag", "direction_flag", "interrupt_flag",
              "instruction_fetch"}

\* MemoryAccessor::set_zero_flag .. set_instruction_fetch: the setter of the field name
set_flag(f, name, value) == [f EXCEPT ![name] = value]

\* ------------------------------------------------------------------------
\* The driver.  It boots (CR3, then the page tables of one complete mapping,
\* written with write_qword_at), may replace one entry, selects the paging
\* mode (CR4, EFER, instruction-fetch bit) and issues one access; a
\* translate_linear call that returned error code 0 it may issue once more.
\*   pc = "boot": booting;  "edit": booted;  "mode": entry replaced or mode
\*   selected;  "done": access issued;  "again": access repeated
\* ------------------------------------------------------------------------

\* page-table entry flag bits
P == x1
RW == x2
US == x4
PS == Shl(x1, 7)
Accessed == x20
Dirty == x40

\* table pages of the driver's layout (CR3 -> 0x1000 -> 0x2000 -> 0x3000 -> 0x4000)
T1 == U(4096)
T2 == U(8192)
T3 == U(12288)
T4 == U(16384)
\* linear addresses.  LinearBase = 0x40201ABC: PML4 index 0, PDPT, directory
\* and table index 1 in the PAE and IA-32e walks, directory index 256 and
\* table index 513 in the legacy walk, page offset 0xABC.
\* LinearLow carries bit 48 above a clear bit 47; LinearHigh has bits 63:39 set
\* (PML4 index 511).
LinearBase == Or(Or({30}, Or({21}, {12})), U(2748))
LinearLow == Or(LinearBase, {48})
LinearHigh == Or(LinearBase, Mask(39, 63))
Linears == {LinearLow, LinearHigh}

\* the mapped page frame: the page of LinearBase (an identity mapping)
Frame == And(LinearBase, xFFFFF000)

\* linear masks: 32-bit wraparound, the 48-bit space, no limit
LinearMasks == {Mask(0, 31), Mask(0, 47), Mask(0, 63)}

\* the entry slots the walks of LinearBase reach in the driver's layout
Slot64(table) == Add(table, W8)
SlotPde32 == Add(T1, U(1024))
SlotPte32 == Add(T2, U(2052))

\* CR3 of the driver's layout: the root table, with PWT and PCD set
BootCr3 == Or(T1, U(24))

\* the complete mapping: <<address, value>> of each write_qword_at, in order
Boot ==
    << <<T1, Or(T2, Or(P, Or(RW, US)))>>,
       <<Slot64(T1), Or(T2, Or(P, Or(RW, US)))>>,
       <<Slot64(T2), Or(T3, Or(P, Or(RW, US)))>>,
       <<Slot64(T3), Or(T4, Or(P, Or(RW, US)))>>,
       <<Slot64(T4), Or(Frame, Or(P, Or(RW, US)))>>,
       <<SlotPde32, Or(T2, Or(P, Or(RW, US)))>>,
       <<SlotPte32, Or(Frame, Or(P, Or(RW, US)))>> >>

\* what the driver may put into a slot instead of its entry `good`
Variants(good) ==
    LET base == And(good, xFFFFF000)
    IN  { Or(base, Or(RW, US)),                      \* not present, other bits set
          Or(base, Or(P, RW)),                       \* supervisor only
          Or(base, Or(P, US)),                       \* read only
          Or(good, PS),                              \* large page
          Or(PS, Or(P, Or(RW, US))),                 \* large page, bits 31:12 zero
          Or(Or(xFFFFF000, PS), Or(P, Or(RW, US))),  \* large page, bits 31:12 set
          Or(P, Or(RW, US)),                         \* physical base 0
          P,                                         \* physical base 0, supervisor read only
          Or(good, Or(Dirty, Or(Mask(32, 33), {63}))), \* dirty, base above 4 GiB, NX
          Or(Or(good, PS), Mask(32, 33)),            \* large page, base above 4 GiB
          Or(xFFFFF000, Or(P, Or(RW, US))),          \* the last frame below 4 GiB
          Or(xE0000000, Or(P, Or(RW, US))) }         \* the frame buffer window

Edits == UNION { {<<Boot[i][1], v>> : v \in Variants(Boot[i][2])} : i \in DOMAIN Boot }

\* CR4 values: no extension, PSE, PAE
Cr4Writes == { {}, Shl(x1, 4), Shl(x1, 5) }

\* EFER values: 0, LME
EferWrites == { {}, Shl(x1, 8) }

NoCall == [op |-> "new", linear |-> {}, is_write |-> FALSE, is_user |-> FALSE,
           paging_enabled |-> FALSE, linear_mask |-> {}, width |-> 0, value |-> {},
           physical |-> {}, err |-> {}, log |-> <<>>]

\* MemoryAccessor::new over MemoryStream::new(0x400, 0x20000, 0)
Init ==
    /\ registers = [i \in 0..(MAX_REGISTER_ADDRESS - 1) |-> {}]
    /\ registers_allocated = [i \in 0..(MAX_REGISTER_ADDRESS - 1) |-> FALSE]
    /\ zero_flag = FALSE /\ sign_flag = FALSE /\ overflow_flag = FALSE
    /\ carry_flag = FALSE /\ parity_flag = FALSE /\ auxiliary_carry_flag = FALSE
    /\ direction_flag = FALSE /\ interrupt_flag = FALSE
    /\ instruction_fetch = FALSE
    /\ efer = {}
    /\ control_registers = [i \in 0..8 |-> IF i = 0 THEN U(34) ELSE {}]
    /\ memory = MemoryStreamNew(U(1024), U(131072), {})
    /\ ret = NoCall
    /\ pc = "boot"
    /\ booted = 0

Booted == pc \in {"edit", "mode"}

\* MemoryAccessor::write_control_register
write_control_register(index, value) ==
    IF index < 9 THEN [control_registers EXCEPT ![index] = value]
    ELSE control_registers

\* the driver calls write_control_register: CR3 first, CR4 once booted
WriteControlRegister ==
    /\ \/ /\ pc = "boot" /\ booted = 0
          /\ control_registers' = write_control_register(3, BootCr3)
          /\ booted' = 1
          /\ pc' = pc
       \/ /\ Booted
          /\ \E v \in Cr4Writes : control_registers' = write_control_register(4, v)
          /\ pc' = "mode"
          /\ booted' = booted
    /\ UNCHANGED <<regVars, flagVars, instruction_fetch, efer, memory, ret>>

\* the driver calls MemoryAccessor::write_efer
WriteEfer ==
    /\ Booted
    /\ \E v \in EferWrites : efer' = v
    /\ pc' = "mode"
    /\ UNCHANGED <<regVars, flagVars, instruction_fetch, control_registers, memory, ret, booted>>

\* the driver calls MemoryAccessor::set_instruction_fetch
SetInstructionFetch ==
    /\ Booted
    /\ \E v \in BOOLEAN : instruction_fetch' = v
    /\ pc' = "mode"
    /\ UNCHANGED <<regVars, flagVars, efer, control_registers, memory, ret, booted>>

\* the driver calls MemoryStream::write_qword_at for the next entry of the mapping
BuildTables ==
    /\ pc = "boot" /\ booted \in 1..Len(Boot)
    /\ memory' = write_qword_at(memory, Boot[booted][1], Boot[booted][2])
    /\ booted' = booted + 1
    /\ pc' = IF booted = Len(Boot) THEN "edit" ELSE pc
    /\ UNCHANGED <<regVars, flagVars, instruction_fetch, efer, control_registers, ret>>

\* the driver calls MemoryStream::write_qword_at to replace one entry
EditTable ==
    /\ pc = "edit"
    /\ \E e \in Edits : memory' = write_qword_at(memory, e[1], e[2])
    /\ pc' = "mode"
    /\ UNCHANGED <<regVars, flagVars, instruction_fetch, efer, control_registers, ret, booted>>

\* the driver calls MemoryAccessor::translate_linear
TranslateLinear ==
    /\ Booted
    /\ \E linear \in Linears, linear_mask \in LinearMasks,
          is_write \in BOOLEAN, is_user \in BOOLEAN, paging_enabled \in BOOLEAN :
          \E t \in {translate_linear(memory, linear, is_write, is_user,
                                     paging_enabled, linear_mask)} :
              /\ memory' = t.walk.memory
              /\ control_registers' = t.control_registers
              /\ ret' = [op |-> "translate_linear", linear |-> linear,
                         is_write |-> is_write, is_user |-> is_user,
                         paging_enabled |-> paging_enabled, linear_mask |-> linear_mask,
                         width |-> 0, value |-> {},
                         physical |-> t.walk.physical, err |-> t.walk.err,
                         log |-> t.walk.log]
    /\ pc' = "done"
    /\ UNCHANGED <<regVars, flagVars, instruction_fetch, efer, booted>>

\* the driver repeats a MemoryAccessor::translate_linear call that returned
\* error code 0, with the same arguments and nothing done in between
TranslateLinearAgain ==
    /\ pc = "done" /\ ret.op = "translate_linear" /\ ret.err = {}
    /\ \E t \in {translate_linear(memory, ret.linear, ret.is_write, ret.is_user,
                                  ret.paging_enabled, ret.linear_mask)} :
          /\ memory' = t.walk.memory
          /\ control_registers' = t.control_registers
          /\ ret' = [ret EXCEPT !.op = "translate_linear_again",
                                !.physical = t.walk.physical, !.err = t.walk.err,
                                !.log = t.walk.log]
    /\ pc' = "again"
    /\ UNCHANGED <<regVars, flagVars, instruction_fetch, efer, booted>>

Next ==
    \/ WriteControlRegister
    \/ WriteEfer
    \/ SetInstructionFetch
    \/ BuildTables
    \/ EditTable
    \/ TranslateLinear
    \/ TranslateLinearAgain

Spec == Init /\ [][Next]_vars

\* linear addresses of the sized accesses: the ends of the three device
\* windows, the addresses around them, and the mapped LinearBase
AccessLinears ==
    { Sub(xE0000000, W1), xE0000000, Sub(xE1000000, W1), xE1000000,
      Sub(xFEE00000, W1), xFEE00000, Sub(xFEE01000, W1), xFEE01000,
      Sub(xFEC00000, W1), xFEC00000, Sub(xFEC00020, W1), xFEC00020,
      LinearBase }

Widths == {8, 16, 32, 64}

\* the value the driver stores: 0x8877665544332211 cut to the width
Stored(width) == And(UNION {Shl(U(17 * (k + 1)), 8 * k) : k \in 0..7}, Mask(0, width - 1))

\* the driver calls MemoryAccessor::read_memory_8 / _16 / _32 / _64
ReadMemory ==
    /\ Booted
    /\ \E width \in Widths, linear \in AccessLinears,
          is_user \in BOOLEAN, paging_enabled \in BOOLEAN :
          \E a \in {read_memory(width, memory, linear, is_user, paging_enabled, Mask(0, 63))} :
              /\ memory' = a.memory
              /\ control_registers' = a.control_registers
              /\ ret' = [op |-> "read_memory", linear |-> linear,
                         is_write |-> FALSE, is_user |-> is_user,
                         paging_enabled |-> paging_enabled, linear_mask |-> Mask(0, 63),
                         width |-> width, value |-> a.value,
                         physical |-> {}, err |-> a.err, log |-> a.log]
    /\ pc' = "done"
    /\ UNCHANGED <<regVars, flagVars, instruction_fetch, efer, booted>>

\* the driver calls MemoryAccessor::write_memory_8 / _16 / _32 / _64
WriteMemory ==
    /\ Booted
    /\ \E width \in Widths, linear \in AccessLinears,
          is_user \in BOOLEAN, paging_enabled \in BOOLEAN :
          \E a \in {write_memory(width, memory, linear, Stored(width), is_user,
                                 paging_enabled, Mask(0, 63))} :
              /\ memory' = a.memory
              /\ control_registers' = a.control_registers
              /\ ret' = [op |-> "write_memory", linear |-> linear,
                         is_write |-> TRUE, is_user |-> is_user,
                         paging_enabled |-> paging_enabled, linear_mask |-> Mask(0, 63),
                         width |-> width, value |-> Stored(width),
                         physical |-> {}, err |-> a.err, log |-> a.log]
    /\ pc' = "done"
    /\ UNCHANGED <<regVars, flagVars, instruction_fetch, efer, booted>>

NextAccess ==
    \/ WriteControlRegister
    \/ WriteEfer
    \/ BuildTables
    \/ EditTable
    \/ ReadMemory
    \/ WriteMemory

SpecAccess == Init /\ [][NextAccess]_vars

\* ------------------------------------------------------------------------
\* A driver of the Backing Store alone.  It creates a stream with
\* MemoryStream::new and then makes up to MaxCalls calls of its operations.
\* ret holds the last call; ret.targeted holds the ranges <<first, length>>
\* that the calls so far wrote to, ret.calls their number.
\* ------------------------------------------------------------------------

MaxCalls == 2

\* the arguments of MemoryStream::new: the stream of the unit tests, one
\* whose logical max lies one byte past a 1 MiB boundary, and one whose
\* initial size exceeds physical max + swap
StoreConfigs ==
    { <<U(1024), U(8192), {}>>,
      <<U(1024), U(1048576), W1>>,
      <<U(16384), U(4096), U(4096)>> }

\* addresses and offsets of the calls: the first byte, the end of the
\* initial size, the end of the first page, and the bytes around logical max
Addresses(m) ==
    { {}, U(1023), U(4095),
      Sub(logical_max_memory_size(m), W8), Sub(logical_max_memory_size(m), W4),
      Sub(logical_max_memory_size(m), W2), Sub(logical_max_memory_size(m), W1),
      logical_max_memory_size(m), Add(logical_max_memory_size(m), W1) }

\* the byte slice holding the bytes of a sequence
SliceOf(bytes) ==
    [len |-> U(Len(bytes)),
     at |-> [i \in {U(k - 1) : k \in {j \in DOMAIN bytes : bytes[j] # {}}} |->
                bytes[CHOOSE k \in DOMAIN bytes : U(k - 1) = i]]]

\* a slice of 4098 bytes that are 0 but the first (0x5A) and the last (0xA5)
LongSlice == [len |-> U(4098), at |-> (U(0) :> U(90)) @@ (U(4097) :> U(165))]

\* the byte slices handed to write and copy_from_external
Slices == { SliceOf(<<U(170)>>), SliceOf(<<U(17), U(34)>>), LongSlice }

\* the lengths handed to read
Lengths == { W1, W3, U(8192) }

\* <<src_offset, dest_offset, size>> of the copy_internal calls: overlapping
\* with the destination after and before the source, ending at logical max,
\* clamped by logical max, a source outside, and one longer than CHUNK
Copies(m) ==
    LET logical_max == logical_max_memory_size(m)
    IN  { <<{}, W2, W3>>, <<W2, {}, W3>>,
          <<Sub(logical_max, U(5)), Sub(logical_max, W3), W3>>,
          <<U(1023), Sub(logical_max, W1), W3>>,
          <<logical_max, {}, W1>> }
        \cup (IF Less(Add(CHUNK, W4), logical_max)
              THEN { <<Sub(logical_max, Add(CHUNK, W3)), Sub(logical_max, Add(CHUNK, W1)),
                       Add(CHUNK, W1)>> }
              ELSE {})

\* the last call of the store driver
StoreCall(op, address, dest, width, value, data, length, result, targets) ==
    [op |-> op, address |-> address, dest |-> dest, width |-> width, value |-> value,
     data |-> data, length |-> length, result |-> result,
     targeted |-> ret.targeted \cup targets, calls |-> ret.calls + 1]

\* MemoryStream::new, with the driver at position start
NewStore(start) ==
    /\ registers = [i \in 0..(MAX_REGISTER_ADDRESS - 1) |-> {}]
    /\ registers_allocated = [i \in 0..(MAX_REGISTER_ADDRESS - 1) |-> FALSE]
    /\ zero_flag = FALSE /\ sign_flag = FALSE /\ overflow_flag = FALSE
    /\ carry_flag = FALSE /\ parity_flag = FALSE /\ auxiliary_carry_flag = FALSE
    /\ direction_flag = FALSE /\ interrupt_flag = FALSE
    /\ instruction_fetch = FALSE
    /\ efer = {}
    /\ control_registers = [i \in 0..8 |-> IF i = 0 THEN U(34) ELSE {}]
    /\ \E c \in StoreConfigs : memory = MemoryStreamNew(c[1], c[2], c[3])
    /\ ret = [op |-> "new", address |-> {}, dest |-> {}, width |-> 0, value |-> {},
              data |-> Zeros({}), length |-> {}, result |-> {},
              targeted |-> {}, calls |-> 0]
    /\ pc = start
    /\ booted = 0

InitStore == NewStore("store")

\* what every call of the store driver leaves alone
StoreFrame ==
    UNCHANGED <<regVars, flagVars, instruction_fetch, efer, control_registers, pc, booted>>

\* the driver calls MemoryStream::ensure_capacity
EnsureCapacity ==
    /\ pc = "store" /\ ret.calls < MaxCalls
    /\ \E offset \in Addresses(memory) :
          \E e \in {ensure_capacity(memory, offset)} :
              /\ memory' = e[2]
              /\ ret' = StoreCall("ensure_capacity", offset, {}, 0, {}, Zeros({}), {},
                                  e[1], {})
    /\ StoreFrame

\* the driver calls MemoryStream::set_offset
SetOffset ==
    /\ pc = "store" /\ ret.calls < MaxCalls
    /\ \E offset \in Addresses(memory) :
          \E e \in {set_offset(memory, offset)} :
              /\ memory' = e[2]
              /\ ret' = StoreCall("set_offset", offset, {}, 0, {}, Zeros({}), {}, e[1], {})
    /\ StoreFrame

\* MemoryStream::byte / short / dword / qword by width
CursorReadOp(width, m) ==
    CASE width = 8 -> char(m)
      [] width = 16 -> short(m)
      [] width = 32 -> dword(m)
      [] width = 64 -> qword(m)

\* the driver calls MemoryStream::byte / short / dword / qword
CursorRead ==
    /\ pc = "store" /\ ret.calls < MaxCalls
    /\ \E width \in Widths :
          \E e \in {CursorReadOp(width, memory)} :
              /\ memory' = e[2]
              /\ ret' = StoreCall("cursor_read", memory.offset, {}, width, {}, Zeros({}),
                                  {}, e[1], {})
    /\ StoreFrame

\* MemoryStream::write_byte / write_short / write_dword / write_qword by width
CursorWriteOp(width, m, value) ==
    CASE width = 8 -> write_byte(m, value)
      [] width = 16 -> write_short(m, value)
      [] width = 32 -> write_dword(m, value)
      [] width = 64 -> write_qword(m, value)

\* the driver calls MemoryStream::write_byte / write_short / write_dword / write_qword
CursorWrite ==
    /\ pc = "store" /\ ret.calls < MaxCalls
    /\ \E width \in Widths :
          /\ memory' = CursorWriteOp(width, memory, Stored(width))
          /\ ret' = StoreCall("cursor_write", memory.offset, {}, width, Stored(width),
                              Zeros({}), {}, {}, {<<memory.offset, U(width \div 8)>>})
    /\ StoreFrame

\* the driver calls MemoryStream::read
Read ==
    /\ pc = "store" /\ ret.calls < MaxCalls
    /\ \E length \in Lengths :
          \E e \in {read(memory, length)} :
              /\ memory' = e[2]
              /\ ret' = StoreCall("read", memory.offset, {}, 0, {}, Zeros({}), length,
                                  e[1], {})
    /\ StoreFrame

\* the driver calls MemoryStream::write
Write ==
    /\ pc = "store" /\ ret.calls < MaxCalls
    /\ \E data \in Slices :
          /\ memory' = write(memory, data)
          /\ ret' = StoreCall("write", memory.offset, {}, 0, {}, data, {}, {},
                              {<<memory.offset, data.len>>})
    /\ StoreFrame

\* MemoryStream::read_byte_at / read_short_at / read_dword_at / read_qword_at by width
ReadAtOp(width, m, address) ==
    CASE width = 8 -> read_byte_at(m, address)
      [] width = 16 -> read_short_at(m, address)
      [] width = 32 -> read_dword_at(m, address)
      [] width = 64 -> read_qword_at(m, address)

\* the driver calls MemoryStream::read_byte_at / read_short_at / read_dword_at /
\* read_qword_at (&self: the stream is not changed)
ReadAt ==
    /\ pc = "store" /\ ret.calls < MaxCalls
    /\ \E width \in Widths, address \in Addresses(memory) :
          ret' = StoreCall("read_at", address, {}, width, {}, Zeros({}), {},
                           ReadAtOp(width, memory, address), {})
    /\ UNCHANGED memory
    /\ StoreFrame

\* MemoryStream::write_byte_at / write_short_at / write_dword_at / write_qword_at by width
WriteAtOp(width, m, address, value) ==
    CASE width = 8 -> write_byte_at(m, address, value)
      [] width = 16 -> write_short_at(m, address, value)
      [] width = 32 -> write_dword_at(m, address, value)
      [] width = 64 -> write_qword_at(m, address, value)

\* the driver calls MemoryStream::write_byte_at / write_short_at / write_dword_at /
\* write_qword_at
WriteAt ==
    /\ pc = "store" /\ ret.calls < MaxCalls
    /\ \E width \in Widths, address \in Addresses(memory) :
          /\ memory' = WriteAtOp(width, memory, address, Stored(width))
          /\ ret' = StoreCall("write_at", address, {}, width, Stored(width), Zeros({}),
                              {}, {}, {<<address, U(width \div 8)>>})
    /\ StoreFrame

\* the driver calls MemoryStream::copy_internal
CopyInternal ==
    /\ pc = "store" /\ ret.calls < MaxCalls
    /\ \E c \in Copies(memory) :
          /\ memory' = copy_internal(memory, c[1], c[2], c[3])
          /\ ret' = StoreCall("copy_internal", c[1], c[2], 0, {}, Zeros({}), c[3], {},
                              {<<c[2], c[3]>>})
    /\ StoreFrame

\* the driver calls MemoryStream::copy_from_external
CopyFromExternal ==
    /\ pc = "store" /\ ret.calls < MaxCalls
    /\ \E data \in Slices, dest \in Addresses(memory) :
          /\ memory' = copy_from_external(memory, data, dest)
          /\ ret' = StoreCall("copy_from_external", {}, dest, 0, {}, data, {}, {},
                              {<<dest, data.len>>})
    /\ StoreFrame

NextStore ==
    \/ EnsureCapacity
    \/ SetOffset
    \/ CursorRead
    \/ CursorWrite
    \/ Read
    \/ Write
    \/ ReadAt
    \/ WriteAt
    \/ CopyInternal
    \/ CopyFromExternal

SpecStore == InitStore /\ [][NextStore]_vars

\* ------------------------------------------------------------------------
\* The driver of the cursor round trip (as test_basic_operations): on a new
\* stream it calls set_offset(s), writes (write, or write_byte / write_short /
\* write_dword / write_qword), calls set_offset(s) again and reads back what
\* it wrote (read, or byte / short / dword / qword).
\*   pc = "seek", "write", "rewind", "read", "end"
\* ------------------------------------------------------------------------

InitCursor == NewStore("seek")

\* set_offset(s)
Seek ==
    /\ pc = "seek"
    /\ \E s \in Addresses(memory) :
          \E e \in {set_offset(memory, s)} :
              /\ memory' = e[2]
              /\ ret' = StoreCall("set_offset", s, {}, 0, {}, Zeros({}), {}, e[1], {})
    /\ pc' = "write"
    /\ UNCHANGED <<regVars, flagVars, instruction_fetch, efer, control_registers, booted>>

\* write(b) or a sized cursor write, at s
Put ==
    /\ pc = "write"
    /\ \/ \E data \in Slices :
             /\ memory' = write(memory, data)
             /\ ret' = StoreCall("write", ret.address, {}, 0, {}, data, {}, {},
                                 {<<memory.offset, data.len>>})
       \/ \E width \in Widths :
             /\ memory' = CursorWriteOp(width, memory, Stored(width))
             /\ ret' = StoreCall("cursor_write", ret.address, {}, width, Stored(width),
                                 Zeros({}), {}, {}, {<<memory.offset, U(width \div 8)>>})
    /\ pc' = "rewind"
    /\ UNCHANGED <<regVars, flagVars, instruction_fetch, efer, control_registers, booted>>

\* set_offset(s) again
Rewind ==
    /\ pc = "rewind"
    /\ \E e \in {set_offset(memory, ret.address)} :
          /\ memory' = e[2]
          /\ ret' = [ret EXCEPT !.calls = @ + 1, !.result = e[1]]
    /\ pc' = "read"
    /\ UNCHANGED <<regVars, flagVars, instruction_fetch, efer, control_registers, booted>>

\* read(len(b)) after write(b), the cursor read of the same width after a
\* sized cursor write
Get ==
    /\ pc = "read"
    /\ \E e \in {IF ret.op = "write" THEN read(memory, ret.data.len)
                 ELSE CursorReadOp(ret.width, memory)} :
          /\ memory' = e[2]
          /\ ret' = [ret EXCEPT !.calls = @ + 1, !.result = e[1],
                                !.op = IF ret.op = "write" THEN "read" ELSE "cursor_read"]
    /\ pc' = "end"
    /\ UNCHANGED <<regVars, flagVars, instruction_fetch, efer, control_registers, booted>>

NextCursor ==
    \/ Seek
    \/ Put
    \/ Rewind
    \/ Get

SpecCursor == InitCursor /\ [][NextCursor]_vars

\* ------------------------------------------------------------------------
\* A driver of the register file, and one of the flags.  Each creates an
\* accessor with MemoryAccessor::new and makes up to MaxCalls calls.  ret
\* holds the last call, the fields of the accessor before it (ret.before,
\* ret.flags, ret.control_registers, ret.efer), the register slots the
\* calls so far were aimed at (ret.touched) and their number (ret.calls).
\*   pc = "registers": the register driver;  "flags": the flag driver
\* ------------------------------------------------------------------------

\* register addresses: RAX, ES, a reserved index (a byte of the store), R15,
\* the instruction pointer and the alias slot
RegisterAddresses == {0, 8, 14, 23, 24, 25}

\* values written: the two of the unit test and -1
RegisterValues == { U(305419896), U(43981), MinusOne }

\* operand sizes
Sizes == {8, 16, 32, 64}

\* slot counts of allocate
Counts == {0, 1, 3}

\* results passed to update_flags: 0, -1, 0xFF, 0x80, -129, 0x8000, 2^32, i64::MIN
FlagValues == { {}, MinusOne, xFF, U(128), Neg(U(129)), U(32768), {32}, {63} }

\* the call the driver has just made
RegisterCall(op, address, value, size, safe, result, targets) ==
    [op |-> op, address |-> address, value |-> value, size |-> size, safe |-> safe,
     result |-> result, before |-> Self, flags |-> SelfFlags,
     control_registers |-> control_registers, efer |-> efer,
     touched |-> ret.touched \cup {t \in targets : is_register_address(t)},
     calls |-> ret.calls + 1]

\* MemoryAccessor::new over MemoryStream::new(1024, 8192, 0), with the driver at start
NewAccessor(start) ==
    /\ registers = [i \in 0..(MAX_REGISTER_ADDRESS - 1) |-> {}]
    /\ registers_allocated = [i \in 0..(MAX_REGISTER_ADDRESS - 1) |-> FALSE]
    /\ zero_flag = FALSE /\ sign_flag = FALSE /\ overflow_flag = FALSE
    /\ carry_flag = FALSE /\ parity_flag = FALSE /\ auxiliary_carry_flag = FALSE
    /\ direction_flag = FALSE /\ interrupt_flag = FALSE
    /\ instruction_fetch = FALSE
    /\ efer = {}
    /\ control_registers = [i \in 0..8 |-> IF i = 0 THEN U(34) ELSE {}]
    /\ memory = MemoryStreamNew(U(1024), U(8192), {})
    /\ ret = [op |-> "new", address |-> 0, value |-> {}, size |-> 0, safe |-> FALSE,
              result |-> {}, before |-> Self, flags |-> SelfFlags,
              control_registers |-> control_registers, efer |-> efer,
              touched |-> {}, calls |-> 0]
    /\ pc = start
    /\ booted = 0

InitRegisters == NewAccessor("registers")

InitFlags == NewAccessor("flags")

\* the accessor takes the fields a register operation returns
Becomes(a) ==
    /\ registers' = a.registers
    /\ registers_allocated' = a.registers_allocated
    /\ memory' = a.memory

\* what every register call leaves alone
RegisterFrame ==
    UNCHANGED <<flagVars, instruction_fetch, efer, control_registers, pc, booted>>

\* the driver calls MemoryAccessor::allocate
Allocate ==
    /\ pc = "registers" /\ ret.calls < MaxCalls
    /\ \E address \in RegisterAddresses, count \in Counts, safe \in BOOLEAN :
          \E r \in {allocate(Self, address, count, safe)} :
              /\ Becomes(r.self)
              /\ ret' = RegisterCall("allocate", address, {}, count, safe, r.result,
                                     IF r.result /\ is_register_address(address)
                                     THEN address..(address + count - 1) ELSE {})
    /\ RegisterFrame

\* the driver calls MemoryAccessor::write_by_size
WriteBySize ==
    /\ pc \in {"registers", "flags"} /\ ret.calls < MaxCalls
    /\ \E address \in RegisterAddresses, value \in RegisterValues, size \in Sizes :
          /\ Becomes(write_by_size(Self, address, value, size))
          /\ ret' = RegisterCall("write_by_size", address, value, size, FALSE, {}, {address})
    /\ RegisterFrame

\* the driver calls MemoryAccessor::write_16bit
Write16bit ==
    /\ pc = "registers" /\ ret.calls < MaxCalls
    /\ \E address \in RegisterAddresses, value \in RegisterValues :
          /\ Becomes(write_16bit(Self, address, value))
          /\ ret' = RegisterCall("write_16bit", address, value, 16, FALSE, {}, {address})
    /\ RegisterFrame

\* the driver calls MemoryAccessor::write_to_high_bit
WriteToHighBit ==
    /\ pc = "registers" /\ ret.calls < MaxCalls
    /\ \E address \in RegisterAddresses, value \in RegisterValues :
          /\ Becomes(write_to_high_bit(Self, address, value))
          /\ ret' = RegisterCall("write_to_high_bit", address, value, 8, FALSE, {}, {address})
    /\ RegisterFrame

\* the driver calls MemoryAccessor::write_to_low_bit
WriteToLowBit ==
    /\ pc = "registers" /\ ret.calls < MaxCalls
    /\ \E address \in RegisterAddresses, value \in RegisterValues :
          /\ Becomes(write_to_low_bit(Self, address, value))
          /\ ret' = RegisterCall("write_to_low_bit", address, value, 8, FALSE, {}, {address})
    /\ RegisterFrame

\* the driver calls MemoryAccessor::add
AddTo ==
    /\ pc = "registers" /\ ret.calls < MaxCalls
    /\ \E address \in RegisterAddresses, value \in RegisterValues :
          /\ Becomes(add(Self, address, value))
          /\ ret' = RegisterCall("add", address, value, 16, FALSE, {}, {address})
    /\ RegisterFrame

\* the driver calls MemoryAccessor::sub
SubFrom ==
    /\ pc = "registers" /\ ret.calls < MaxCalls
    /\ \E address \in RegisterAddresses, value \in RegisterValues :
          /\ Becomes(sub(Self, address, value))
          /\ ret' = RegisterCall("sub", address, value, 16, FALSE, {}, {address})
    /\ RegisterFrame

\* the driver calls MemoryAccessor::increment
Increment ==
    /\ pc = "registers" /\ ret.calls < MaxCalls
    /\ \E address \in RegisterAddresses :
          /\ Becomes(increment(Self, address))
          /\ ret' = RegisterCall("increment", address, W1, 16, FALSE, {}, {address})
    /\ RegisterFrame

\* the driver calls MemoryAccessor::decrement
Decrement ==
    /\ pc = "registers" /\ ret.calls < MaxCalls
    /\ \E address \in RegisterAddresses :
          /\ Becomes(decrement(Self, address))
          /\ ret' = RegisterCall("decrement", address, W1, 16, FALSE, {}, {address})
    /\ RegisterFrame

NextRegisters ==
    \/ Allocate
    \/ WriteBySize
    \/ Write16bit
    \/ WriteToHighBit
    \/ WriteToLowBit
    \/ AddTo
    \/ SubFrom
    \/ Increment
    \/ Decrement

SpecRegisters == InitRegisters /\ [][NextRegisters]_vars

\* the accessor takes the flag fields a flag operation returns
FlagsBecome(f) ==
    /\ zero_flag' = f.zero_flag /\ sign_flag' = f.sign_flag
    /\ overflow_flag' = f.overflow_flag /\ carry_flag' = f.carry_flag
    /\ parity_flag' = f.parity_flag /\ auxiliary_carry_flag' = f.auxiliary_carry_flag
    /\ direction_flag' = f.direction_flag /\ interrupt_flag' = f.interrupt_flag
    /\ instruction_fetch' = f.instruction_fetch

\* the driver calls MemoryAccessor::update_flags
UpdateFlags ==
    /\ pc = "flags" /\ ret.calls < MaxCalls
    /\ \E value \in FlagValues, size \in Sizes :
          /\ FlagsBecome(update_flags(SelfFlags, value, size))
          /\ ret' = RegisterCall("update_flags", 0, value, size, FALSE, {}, {})
    /\ UNCHANGED <<regVars, efer, control_registers, memory, pc, booted>>

\* the driver calls one of the flag setters
SetFlag ==
    /\ pc = "flags" /\ ret.calls < MaxCalls
    /\ \E name \in FlagNames, value \in BOOLEAN :
          /\ FlagsBecome(set_flag(SelfFlags, name, value))
          /\ ret' = RegisterCall(name, 0, {}, 0, FALSE, value, {})
    /\ UNCHANGED <<regVars, efer, control_registers, memory, pc, booted>>

NextFlags ==
    \/ UpdateFlags
    \/ SetFlag
    \/ WriteBySize

SpecFlags == InitFlags /\ [][NextFlags]_vars

\* ------------------------------------------------------------------------
\* 64-bit and 128-bit division (uint64.rs).  A u128 or i128 is the set of its
\* set bit positions, a subset of 0..127, an i128 in two's complement.
\* ------------------------------------------------------------------------

\* make_u64
make_u64(low, high) == Or(Shl(AsU32(high), 32), AsU32(low))

\* one step of binary long division: the remainder r takes the next bit of the
\* dividend and gives up the divisor d if it can; <<quotient bit, remainder>>
DivideStep(r, bit, d) ==
    Let({j + 1 : j \in r} \cup (IF bit THEN {0} ELSE {}), LAMBDA r2 :
        IF Less(r2, d) THEN <<FALSE, r2>> ELSE <<TRUE, Sub(r2, d)>>)

\* the bits hi-1 .. lo of the dividend n taken in falling order onto the
\* remainder r: the quotient bits lo .. hi-1 and the remainder left
RECURSIVE DivideBits(_, _, _, _, _)
DivideBits(n, d, lo, hi, r) ==
    IF hi = lo + 1
    THEN Let(DivideStep(r, lo \in n, d), LAMBDA s :
             [q |-> IF s[1] THEN {lo} ELSE {}, r |-> s[2]])
    ELSE Let(DivideBits(n, d, (lo + hi) \div 2, hi, r), LAMBDA top :
         Let(DivideBits(n, d, lo, (lo + hi) \div 2, top.r), LAMBDA bottom :
             [q |-> top.q \cup bottom.q, r |-> bottom.r]))

\* n / d and n % d on u64 (width 64) and u128 (width 128), d non-zero
DivRem(n, d, width) == DivideBits(n, d, 0, width, {})

\* -a on i128, wrapping
Neg128(a) ==
    IF a = {} THEN {}
    ELSE LET low == CHOOSE x \in a : \A y \in a : x <= y
         IN  {low} \cup {i \in (low + 1)..127 : i \notin a}

\* the magnitude of an i128, as u128
Abs128(a) == IF 127 \in a THEN Neg128(a) ELSE a

\* `as i128` of an i64
AsI128(a) == IF 63 \in a THEN a \cup Mask(64, 127) ELSE a

\* a < b on i128
SLess128(a, b) == IF (127 \in a) # (127 \in b) THEN 127 \in a ELSE Less(a, b)

\* n / d and n % d on i128, d non-zero: both truncate towards zero, and both
\* panic ("attempt to divide with overflow") on i128::MIN / -1 in every build
SDivRem(n, d) ==
    IF n = {127} /\ d = Mask(0, 127) THEN [panic |-> TRUE, q |-> {}, r |-> {}]
    ELSE Let(DivRem(Abs128(n), Abs128(d), 128), LAMBDA m :
             [panic |-> FALSE,
              q |-> IF (127 \in n) # (127 \in d) THEN Neg128(m.q) ELSE m.q,
              r |-> IF 127 \in n THEN Neg128(m.r) ELSE m.r])

\* what a call leaves behind: the bool it returned, or that it never returned
\* (a panic cannot leave an extern "C" function: the process is aborted),
\* whether it wrote through its output pointers, and what it wrote
Returned(result, written, q, r) ==
    [result |-> result, fatal |-> FALSE, written |-> written, q |-> q, r |-> r]
Aborted == [result |-> FALSE, fatal |-> TRUE, written |-> FALSE, q |-> {}, r |-> {}]

\* uint64_div (the quotient is written through out_low / out_high)
uint64_div(left_low, left_high, right_low, right_high) ==
    LET left == make_u64(left_low, left_high)
        right == make_u64(right_low, right_high)
    IN  IF right = {} THEN Returned(FALSE, FALSE, {}, {})
        ELSE Returned(TRUE, TRUE, DivRem(left, right, 64).q, {})

\* uint64_mod (the remainder is written through out_low / out_high)
uint64_mod(left_low, left_high, right_low, right_high) ==
    LET left == make_u64(left_low, left_high)
        right == make_u64(right_low, right_high)
    IN  IF right = {} THEN Returned(FALSE, FALSE, {}, {})
        ELSE Returned(TRUE, TRUE, {}, DivRem(left, right, 64).r)

\* uint128_divmod_u64
uint128_divmod_u64(low_low, low_high, high_low, high_high, div_low, div_high) ==
    LET low == make_u64(low_low, low_high)
        high == make_u64(high_low, high_high)
        divisor == make_u64(div_low, div_high)
    IN  IF divisor = {} THEN Returned(FALSE, FALSE, {}, {})
        ELSE Let({i + 64 : i \in high} \cup low, LAMBDA dividend :
             Let(DivRem(dividend, divisor, 128), LAMBDA m :
                 IF Less(Mask(0, 63), m.q) THEN Returned(FALSE, FALSE, {}, {})
                 ELSE Returned(TRUE, TRUE, m.q \cap Mask(0, 63), m.r \cap Mask(0, 63))))

\* int128_divmod_i64
int128_divmod_i64(low_low, low_high, high_low, high_high, divisor) ==
    IF divisor = {} THEN Returned(FALSE, FALSE, {}, {})
    ELSE LET low == make_u64(low_low, low_high)
             high == make_u64(high_low, high_high)
         IN  Let({i + 64 : i \in high} \cup low, LAMBDA dividend :
             Let(SDivRem(dividend, AsI128(divisor)), LAMBDA m :
                 IF m.panic THEN Aborted
                 ELSE IF SLess128(m.q, Mask(63, 127)) \/ SLess128(Mask(0, 62), m.q)
                 THEN Returned(FALSE, FALSE, {}, {})
                 ELSE Returned(TRUE, TRUE, m.q \cap Mask(0, 63), m.r \cap Mask(0, 63))))

\* ------------------------------------------------------------------------
\* The division driver.  It holds a 128-bit dividend (low and high u64) and a
\* 64-bit divisor and makes one call, passing them in 32-bit halves.
\*   pc = "divide": arguments chosen;  "divided": call made
\* ------------------------------------------------------------------------

\* 64-bit halves and divisors: 0, 1, 2^63 (i64::MIN), 2^64 - 1 (-1),
\* 2^63 - 1 (i64::MAX), 2^40 + 0x12345678
Halves == { {}, W1, {63}, Mask(0, 63), Mask(0, 62), Or({40}, U(305419896)) }

\* the arguments, before the call
Operands(low, high, divisor) ==
    [op |-> "operands", low |-> low, high |-> high, divisor |-> divisor,
     result |-> FALSE, fatal |-> FALSE, written |-> FALSE, q |-> {}, r |-> {}]

\* the call op made with the arguments, and its outcome
Divided(op, low, high, divisor, out) ==
    [op |-> op, low |-> low, high |-> high, divisor |-> divisor,
     result |-> out.result, fatal |-> out.fatal, written |-> out.written,
     q |-> out.q, r |-> out.r]

InitDivision ==
    /\ registers = [i \in 0..(MAX_REGISTER_ADDRESS - 1) |-> {}]
    /\ registers_allocated = [i \in 0..(MAX_REGISTER_ADDRESS - 1) |-> FALSE]
    /\ zero_flag = FALSE /\ sign_flag = FALSE /\ overflow_flag = FALSE
    /\ carry_flag = FALSE /\ parity_flag = FALSE /\ auxiliary_carry_flag = FALSE
    /\ direction_flag = FALSE /\ interrupt_flag = FALSE
    /\ instruction_fetch = FALSE
    /\ efer = {}
    /\ control_registers = [i \in 0..8 |-> IF i = 0 THEN U(34) ELSE {}]
    /\ memory = MemoryStreamNew(U(1024), U(8192), {})
    /\ \E low \in Halves, high \in Halves, divisor \in Halves :
          ret = Operands(low, high, divisor)
    /\ pc = "divide"
    /\ booted = 0

\* what a division leaves alone: uint64.rs has no state
DivisionFrame ==
    /\ pc' = "divided"
    /\ UNCHANGED <<regVars, flagVars, instruction_fetch, efer, control_registers, memory,
                   booted>>

\* the driver calls uint64_div(low, divisor)
Uint64Div ==
    /\ pc = "divide"
    /\ ret' = Divided("uint64_div", ret.low, {}, ret.divisor,
                      uint64_div(AsU32(ret.low), Shr(ret.low, 32),
                                 AsU32(ret.divisor), Shr(ret.divisor, 32)))
    /\ DivisionFrame

\* the driver calls uint64_mod(low, divisor)
Uint64Mod ==
    /\ pc = "divide"
    /\ ret' = Divided("uint64_mod", ret.low, {}, ret.divisor,
                      uint64_mod(AsU32(ret.low), Shr(ret.low, 32),
                                 AsU32(ret.divisor), Shr(ret.divisor, 32)))
    /\ DivisionFrame

\* the driver calls uint128_divmod_u64(high:low, divisor)
Uint128DivmodU64 ==
    /\ pc = "divide"
    /\ ret' = Divided("uint128_divmod_u64", ret.low, ret.high, ret.divisor,
                      uint128_divmod_u64(AsU32(ret.low), Shr(ret.low, 32),
                                         AsU32(ret.high), Shr(ret.high, 32),
                                         AsU32(ret.divisor), Shr(ret.divisor, 32)))
    /\ DivisionFrame

\* the driver calls int128_divmod_i64(high:low, divisor)
Int128DivmodI64 ==
    /\ pc = "divide"
    /\ ret' = Divided("int128_divmod_i64", ret.low, ret.high, ret.divisor,
                      int128_divmod_i64(AsU32(ret.low), Shr(ret.low, 32),
                                        AsU32(ret.high), Shr(ret.high, 32), ret.divisor))
    /\ DivisionFrame

NextDivision ==
    \/ Uint64Div
    \/ Uint64Mod
    \/ Uint128DivmodU64
    \/ Int128DivmodI64

SpecDivision == InitDivision /\ [][NextDivision]_vars

\* ------------------------------------------------------------------------
\* Properties
\* ------------------------------------------------------------------------

\* bits hi:lo of a word, as a number
Bits(x, lo, hi) == {i - lo : i \in {j \in x : j >= lo /\ j <= hi}}

\* the state is the return of a translate_linear call
Called == ret.op = "translate_linear"

\* the step is a translate_linear call
Calls == pc # "done" /\ pc' = "done" /\ ret'.op = "translate_linear"

\* the linear address the call walks
Linear(r) == {i \in r.linear : i \in r.linear_mask}

\* paging mode bits
Pse == 4 \in control_registers[4]
Pae == 5 \in control_registers[4]
Lme == 8 \in efer

\* the page-table root
Root == control_registers[3] \cap Mask(12, 31)

\* the page-fault vector in the upper half of an error code
Vector == {17, 18, 19}

\* the write and user bits of an error code
WriteUser(r) == (IF r.is_write THEN {1} ELSE {}) \cup (IF r.is_user THEN {2} ELSE {})

\* the entry permits the access
Permits(entry, r) == (r.is_user => 2 \in entry) /\ (r.is_write => 1 \in entry)

\* the addresses of the entries a walk read, in order
EntryReads(log) ==
    SelectSeq(log, LAMBDA a : a.role = "walk"
                              /\ a.op \in {"read_physical_32", "read_physical_64"})

\* the address of the last entry a walk read
LastEntry(log) == EntryReads(log)[Len(EntryReads(log))].address

\* a page-table entry of the current paging mode, as the store holds it
EntryAt(m, address) ==
    IF Pae THEN read_qword_at(m, address) ELSE read_dword_at(m, address)

\* C1: with paging disabled translate_linear returns (linear & linear_mask, 0),
\* whatever the arguments and the control registers
C1_Identity ==
    (Called /\ ~ret.paging_enabled) =>
        /\ ret.physical = {i \in 0..63 : i \in ret.linear /\ i \in ret.linear_mask}
        /\ ret.err = {}

\* a paging-disabled call with CR4.PAE and EFER.LME set whose mask cut the address
C1_Witness ==
    /\ Called /\ ~ret.paging_enabled
    /\ Pae /\ Lme /\ Root # {}
    /\ ret.linear = LinearHigh /\ ret.linear_mask = Mask(0, 47)
    /\ ret.physical = Mask(39, 47) \cup LinearBase

\* C2: the legacy walk of a present, user, writable directory entry and table
\* entry with base P returns (P + (linear & 0xFFF), 0), for every P in [0, 2^32)
C2_LegacyMapsEveryFrame ==
    [][(Calls /\ ret'.paging_enabled /\ ~Pae) =>
         LET lin == Linear(ret')
             pde == read_dword_at(memory, Add(Root, Shl(Bits(lin, 22, 31), 2)))
             pte == read_dword_at(memory,
                                  Add(pde \cap Mask(12, 31), Shl(Bits(lin, 12, 21), 2)))
         IN  ({0, 1, 2} \subseteq pde /\ ~(Pse /\ 7 \in pde) /\ {0, 1, 2} \subseteq pte) =>
                 /\ ret'.physical = Add(pte \cap Mask(12, 31), lin \cap Mask(0, 11))
                 /\ ret'.err = {}]_vars

\* the entries the IA-32e walk of `lin` selects in the stream m:
\* <<PML4E, PDPTE, PDE, PTE>>, each table at bits 31:12 of the entry above
Chain4(m, lin) ==
    LET pml4e == read_qword_at(m, Add(Root, Shl(Bits(lin, 39, 47), 3)))
        pdpte == read_qword_at(m, Add(pml4e \cap Mask(12, 31), Shl(Bits(lin, 30, 38), 3)))
        pde == read_qword_at(m, Add(pdpte \cap Mask(12, 31), Shl(Bits(lin, 21, 29), 3)))
        pte == read_qword_at(m, Add(pde \cap Mask(12, 31), Shl(Bits(lin, 12, 20), 3)))
    IN  <<pml4e, pdpte, pde, pte>>

\* C3: the IA-32e walk of a present, permitting PML4E, PDPTE, PDE and PTE, with
\* bit 7 clear in the PDPTE and the PDE, returns (PTE bits 31:12 + (linear &
\* 0xFFF), 0); an identity-mapped chain returns the linear address itself
C3_Ia32eMaps4K ==
    [][(Calls /\ ret'.paging_enabled /\ Pae /\ Lme) =>
         LET lin == Linear(ret')
             c == Chain4(memory, lin)
         IN  ((\A k \in 1..4 : 0 \in c[k] /\ Permits(c[k], ret'))
                 /\ 7 \notin c[2] /\ 7 \notin c[3]) =>
                 /\ ret'.physical = Add(c[4] \cap Mask(12, 31), lin \cap Mask(0, 11))
                 /\ ret'.err = {}
                 /\ (c[4] \cap Mask(12, 31) = lin \ Mask(0, 11) => ret'.physical = lin)]_vars

\* an IA-32e user write through four levels returned the identity-mapped address
C3_Witness ==
    /\ Called /\ ret.paging_enabled /\ Pae /\ Lme
    /\ ret.is_user /\ ret.is_write
    /\ Len(EntryReads(ret.log)) = 4
    /\ ret.err = {}
    /\ ret.physical = LinearBase

\* C4: a successful walk sets bit 5 of every entry it used, bit 6 of the leaf
\* when is_write, and changes no other bit of the backing store
C4_AccessedDirtyOnly ==
    [][(Calls /\ ret'.paging_enabled /\ ret'.err = {}) =>
         LET entries == {EntryReads(ret'.log)[i].address : i \in DOMAIN EntryReads(ret'.log)}
             leaf == LastEntry(ret'.log)
             width == IF Pae THEN 8 ELSE 4
             entryBytes == {Add(a, U(k)) : a \in entries, k \in 0..(width - 1)}
             byte(m, pi, po) ==
                 IF pi \in DOMAIN m.pages /\ po \in DOMAIN m.pages[pi]
                 THEN m.pages[pi][po] ELSE {}
             touched == UNION {{<<pi, po>> : po \in DOMAIN memory.pages[pi]} :
                                   pi \in DOMAIN memory.pages}
                        \cup UNION {{<<pi, po>> : po \in DOMAIN memory'.pages[pi]} :
                                        pi \in DOMAIN memory'.pages}
         IN  /\ \A a \in entries :
                   EntryAt(memory', a) =
                       EntryAt(memory, a) \cup {5}
                           \cup (IF a = leaf /\ ret'.is_write THEN {6} ELSE {})
             /\ \A b \in touched :
                   \/ Or(Shl(b[1], 12), b[2]) \in entryBytes
                   \/ byte(memory', b[1], b[2]) = byte(memory, b[1], b[2])
             /\ DOMAIN memory'.pages = DOMAIN memory.pages
             /\ memory'.size = memory.size /\ memory'.offset = memory.offset]_vars

\* a PAE write through three levels: the PTE is accessed and dirty, the
\* PDPTE and the PDE are accessed and not dirty
C4_Witness ==
    /\ Called /\ ret.paging_enabled /\ Pae /\ ~Lme
    /\ ret.is_write /\ ret.err = {}
    /\ Len(EntryReads(ret.log)) = 3
    /\ {5, 6} \subseteq read_qword_at(memory, EntryReads(ret.log)[3].address)
    /\ \A k \in 1..2 :
          /\ 5 \in read_qword_at(memory, EntryReads(ret.log)[k].address)
          /\ 6 \notin read_qword_at(memory, EntryReads(ret.log)[k].address)

\* C5: a present entry that denies the access yields
\* (0x0E << 16) | 0b001 | write bit | user bit, in all three walks
C5_DenyingEntryFaults ==
    [][(Calls /\ ret'.paging_enabled) =>
         LET entry == EntryAt(memory, LastEntry(ret'.log))
         IN  (0 \in entry /\ ~Permits(entry, ret')) =>
                 ret'.err = Vector \cup {0} \cup WriteUser(ret')]_vars

\* C6: an entry with bit 0 clear yields (0x0E << 16) | write bit | user bit,
\* present bit clear, whatever its other bits
C6_NotPresentFaults ==
    [][(Calls /\ ret'.paging_enabled) =>
         LET entry == EntryAt(memory, LastEntry(ret'.log))
         IN  0 \notin entry => ret'.err = Vector \cup WriteUser(ret')]_vars

\* a legacy user write reached a table entry that is not present but has its
\* base, write and user bits set
C6_Witness ==
    /\ Called /\ ret.paging_enabled /\ ~Pae
    /\ ret.is_user /\ ret.is_write
    /\ Len(EntryReads(ret.log)) = 2
    /\ read_dword_at(memory, LastEntry(ret.log)) \cap {0, 1, 2} = {1, 2}
    /\ read_dword_at(memory, LastEntry(ret.log)) \cap Mask(12, 31) # {}
    /\ ret.err = Vector \cup {1, 2}

\* C7: in the legacy walk a present entry that fails the reserved check yields
\* the error bits present, write bit, user bit, bit 3, and bit 4 exactly in
\* instruction-fetch mode
C7_ReservedFaultBits ==
    [][(Calls /\ ret'.paging_enabled /\ ~Pae) =>
         LET entry == EntryAt(memory, LastEntry(ret'.log))
         IN  (0 \in entry /\ entry \cap Mask(12, 31) = {}) =>
                 ret'.err = Vector \cup {0} \cup WriteUser(ret') \cup {3}
                                \cup (IF instruction_fetch THEN {4} ELSE {})]_vars

\* bits 63:48 of a word replaced by copies of bit 47
SignExtend47(x) == (x \cap Mask(0, 47)) \cup (IF 47 \in x THEN Mask(48, 63) ELSE {})

\* C8: translate_linear writes CR2 exactly on a fault: the masked linear
\* address sign-extended from bit 47 under PAE and LME, its low 32 bits
\* otherwise; on success CR2 keeps its value
C8_FaultAddressInCr2 ==
    [][Calls =>
         /\ ret'.err # {} =>
               control_registers'[2] =
                   IF Pae /\ Lme THEN SignExtend47(Linear(ret'))
                   ELSE Linear(ret') \cap Mask(0, 31)
         /\ ret'.err = {} => control_registers'[2] = control_registers[2]]_vars

\* C9: with paging enabled, CR4.PAE clear selects the legacy walk (4-byte
\* entries, directory index = linear bits 31:22) whatever EFER holds; PAE set
\* and LME clear the PAE walk (8-byte entries, PDPT index = linear bits 31:30);
\* both set the IA-32e walk (PML4 index = linear bits 47:39)
C9_WalkSelection ==
    (Called /\ ret.paging_enabled) =>
        LET first == ret.log[1]
            lin == Linear(ret)
            reads == Len(EntryReads(ret.log))
        IN  /\ first.role = "walk"
            /\ ~Pae =>
                  /\ first.op = "read_physical_32"
                  /\ first.address = Add(Root, Shl(Bits(lin, 22, 31), 2))
                  /\ reads <= 2
            /\ (Pae /\ ~Lme) =>
                  /\ first.op = "read_physical_64"
                  /\ first.address = Add(Root, Shl(Bits(lin, 30, 31), 3))
                  /\ reads <= 3
            /\ (Pae /\ Lme) =>
                  /\ first.op = "read_physical_64"
                  /\ first.address = Add(Root, Shl(Bits(lin, 39, 47), 3))
                  /\ reads <= 4
            /\ \A i \in DOMAIN ret.log :
                  ret.log[i].op \in (IF Pae THEN {"read_physical_64", "write_physical_64"}
                                     ELSE {"read_physical_32", "write_physical_32"})

\* a legacy walk made with EFER.LME set read two 4-byte entries
C9_Witness ==
    /\ Called /\ ret.paging_enabled
    /\ ~Pae /\ Lme
    /\ Len(EntryReads(ret.log)) = 2
    /\ ret.err = {}

\* the three device windows of the claim
InWindow(address) ==
    \/ ~Less(address, xE0000000) /\ Less(address, xE1000000)
    \/ ~Less(address, xFEE00000) /\ Less(address, xFEE01000)
    \/ ~Less(address, xFEC00000) /\ Less(address, xFEC00020)

AccessCalls == pc # "done" /\ pc' = "done" /\ ret'.op \in {"read_memory", "write_memory"}

\* C10: for every width, when translation succeeds (paging enabled or not) and
\* the physical address lies in [0xE0000000,0xE1000000), [0xFEE00000,0xFEE01000)
\* or [0xFEC00000,0xFEC00020), read_memory returns (0, 0xFFFFFFFF), write_memory
\* returns 0xFFFFFFFF, and the store's data bytes are neither read nor written
C10_MmioSentinel ==
    [][AccessCalls =>
         LET t == translate_linear(memory, ret'.linear, ret'.is_write, ret'.is_user,
                                   ret'.paging_enabled, ret'.linear_mask)
         IN  (t.walk.err = {} /\ InWindow(t.walk.physical)) =>
                 /\ ret'.err = Mask(0, 31)
                 /\ ret'.op = "read_memory" => ret'.value = {}
                 /\ \A i \in DOMAIN ret'.log : ret'.log[i].role # "data"
                 /\ memory' = t.walk.memory]_vars

\* a 64-bit write through the IA-32e walk reached the frame buffer window
C10_Witness ==
    /\ ret.op = "write_memory" /\ ret.width = 64
    /\ ret.paging_enabled /\ Pae /\ Lme
    /\ Len(EntryReads(ret.log)) = 4
    /\ ret.err = Mask(0, 31)

\* C11: for every width, when translate_linear returns a page-fault error
\* code e, read_memory returns (0, e), write_memory returns e, the store is
\* left as the walk left it (no byte of the value is stored) and no data
\* access is made
C11_FaultPropagated ==
    [][AccessCalls =>
         LET t == translate_linear(memory, ret'.linear, ret'.is_write, ret'.is_user,
                                   ret'.paging_enabled, ret'.linear_mask)
         IN  t.walk.err # {} =>
                 /\ ret'.err = t.walk.err
                 /\ ret'.op = "read_memory" => ret'.value = {}
                 /\ \A i \in DOMAIN ret'.log : ret'.log[i].role # "data"
                 /\ memory' = t.walk.memory
                 /\ control_registers' = t.control_registers]_vars

\* a 64-bit write whose walk ended in a page fault
C11_Witness ==
    /\ ret.op = "write_memory" /\ ret.width = 64
    /\ ret.paging_enabled
    /\ Bits(ret.err, 16, 31) = x0E
    /\ ret.value # {}

\* ------------------------------------------------------------------------
\* Properties of the Backing Store
\* ------------------------------------------------------------------------

\* the store driver makes a call of the operation op
StoreCalls(op) == ret'.calls = ret.calls + 1 /\ ret'.op = op

\* a <= b on words
LessEq(a, b) == ~Less(b, a)

\* the addresses of the non-zero bytes the pages of m hold
NonZero(m) ==
    UNION { {Or(Shl(p, PAGE_SHIFT), o) : o \in DOMAIN m.pages[p]} : p \in DOMAIN m.pages }

\* byte i of a value, little-endian
ByteOf(value, i) == Bits(value, 8 * i, 8 * i + 7)

\* byte i of a slice
SliceByte(slice, i) == IF i \in DOMAIN slice.at THEN slice.at[i] ELSE {}

\* C12: in every reachable state of the backing store the committed size is
\* at most the logical max (physical_max + swap_size)
C12_SizeWithinLogicalMax == LessEq(memory.size, logical_max_memory_size(memory))

\* ensure_capacity grew the size to a logical max that is no multiple of 1 MiB
C12_Witness ==
    /\ ret.op = "ensure_capacity" /\ ret.result = TRUE
    /\ memory.size = logical_max_memory_size(memory)
    /\ 0 \in memory.size
    /\ Less(U(1024), memory.size)

\* C13: no operation decreases the committed size, and every materialized
\* page stays materialized
C13_NeverShrinks ==
    [][/\ LessEq(memory.size, memory'.size)
       /\ DOMAIN memory.pages \subseteq DOMAIN memory'.pages]_vars

\* a second call was made on a stream that had grown and held a page
C13_Witness ==
    /\ ret.calls = 2 /\ ret.op = "ensure_capacity"
    /\ DOMAIN memory.pages # {}
    /\ memory.size = logical_max_memory_size(memory)
    /\ Less(ret.address, memory.size)

\* the smallest multiple of 1 MiB greater than offset
NextChunk(offset) == Shl(Add(Shr(offset, 20), W1), 20)

\* C14: ensure_capacity(offset) returns true and changes nothing when
\* offset < size; returns false and changes nothing when offset >= logical max;
\* otherwise returns true and sets size to min(logical max, the smallest
\* multiple of 1 MiB greater than offset), which covers offset
C14_EnsureCapacity ==
    [][StoreCalls("ensure_capacity") =>
         LET offset == ret'.address
             logical_max == logical_max_memory_size(memory)
         IN  IF Less(offset, memory.size)
             THEN ret'.result = TRUE /\ memory' = memory
             ELSE IF GreaterEq(offset, logical_max)
             THEN ret'.result = FALSE /\ memory' = memory
             ELSE /\ ret'.result = TRUE
                  /\ memory' = [memory EXCEPT !.size =
                                   IF Less(NextChunk(offset), logical_max)
                                   THEN NextChunk(offset) ELSE logical_max]
                  /\ Less(offset, memory'.size)]_vars

\* ensure_capacity grew the size to 1 MiB, below the logical max
C14_Witness ==
    /\ ret.op = "ensure_capacity" /\ ret.result = TRUE
    /\ memory.size = U(1048576)
    /\ Less(memory.size, logical_max_memory_size(memory))

\* C15: for every address a and width n in {1,2,4,8} bytes with
\* a + n <= logical max, after write_byte_at / write_short_at / write_dword_at /
\* write_qword_at(a, v) the same-width read at a returns v, read_byte_at(a + i)
\* returns byte i of v (little-endian), and size >= a + n
C15_WriteThenReadAt ==
    [][StoreCalls("write_at") =>
         LET a == ret'.address
             n == ret'.width \div 8
         IN  LessEq(Add(a, U(n)), logical_max_memory_size(memory)) =>
                 /\ ReadAtOp(ret'.width, memory', a) = ret'.value
                 /\ \A i \in 0..(n - 1) :
                        read_byte_at(memory', Add(a, U(i))) = ByteOf(ret'.value, i)
                 /\ LessEq(Add(a, U(n)), memory'.size)]_vars

\* a 64-bit write that ends at a logical max one byte past 1 MiB, on a
\* stream whose size was below the address
C15_Witness ==
    /\ ret.op = "write_at" /\ ret.width = 64 /\ ret.calls = 1
    /\ Add(ret.address, W8) = logical_max_memory_size(memory)
    /\ 0 \in logical_max_memory_size(memory)
    /\ read_qword_at(memory, ret.address) = Stored(64)

\* an address some call so far wrote to
Targeted(a) == \E t \in ret.targeted : GreaterEq(a, t[1]) /\ Less(a, Add(t[1], t[2]))

\* C16: every address that was never the target of a write, of a
\* copy_internal destination or of copy_from_external reads as 0, through
\* read_byte_at and through the cursor reads (char, read), in a materialized
\* page or not, within the committed size or not
C16_UnwrittenReadsZero ==
    \A a \in NonZero(memory) \cup Addresses(memory) :
        ~Targeted(a) =>
            /\ read_byte_at(memory, a) = {}
            /\ set_offset(memory, a)[1] =>
                   /\ char(set_offset(memory, a)[2])[1] = {}
                   /\ read(set_offset(memory, a)[2], W1)[1] = Zeros(W1)

\* a read of an address never written, in a materialized page that holds
\* written bytes, returned 0
C16_Witness ==
    /\ ret.op = "read_at" /\ ret.width = 8 /\ ret.result = {}
    /\ ~Targeted(ret.address)
    /\ Less(ret.address, memory.size)
    /\ Shr(ret.address, PAGE_SHIFT) \in DOMAIN memory.pages
    /\ DOMAIN memory.pages[Shr(ret.address, PAGE_SHIFT)] # {}

\* C17: for every start offset s and byte sequence b with
\* s + len(b) <= logical max, and every initial size: set_offset(s), write(b)
\* (or a sized cursor write), set_offset(s), read(len(b)) (or the sized cursor
\* read) returns exactly b
C17_CursorRoundTrip ==
    (pc = "end" /\ LessEq(Add(ret.address, IF ret.op = "read" THEN ret.data.len
                                           ELSE U(ret.width \div 8)),
                          logical_max_memory_size(memory))) =>
        IF ret.op = "read" THEN ret.result = ret.data ELSE ret.result = ret.value

\* C18: for src < dst < src + len with both ranges inside the logical max,
\* after copy_internal(src, dst, len) reading dst + i returns, for every
\* i < len, the byte src + i held before the call (the indices where both
\* bytes are 0 need no look: NonZero lists the others)
C18_CopyInternalIsMemmove ==
    [][StoreCalls("copy_internal") =>
         LET src == ret'.address
             dst == ret'.dest
             len == ret'.length
             logical_max == logical_max_memory_size(memory)
             held == {Sub(a, src) : a \in {x \in NonZero(memory) :
                                              GreaterEq(x, src) /\ Less(x, Add(src, len))}}
             holds == {Sub(a, dst) : a \in {x \in NonZero(memory') :
                                               GreaterEq(x, dst) /\ Less(x, Add(dst, len))}}
         IN  (/\ Less(src, dst) /\ Less(dst, Add(src, len))
              /\ LessEq(Add(src, len), logical_max) /\ LessEq(Add(dst, len), logical_max)) =>
                 \A i \in held \cup holds :
                     read_byte_at(memory', Add(dst, i)) = read_byte_at(memory, Add(src, i))]_vars

\* C19: after copy_from_external(bytes, dst) with dst + len(bytes) <= logical
\* max, read_byte_at(dst + i) returns bytes[i] for every i < len(bytes); when
\* dst + len(bytes) > logical max the bytes below the logical max are stored
C19_CopyFromExternalStored ==
    [][StoreCalls("copy_from_external") =>
         LET dst == ret'.dest
             data == ret'.data
             logical_max == logical_max_memory_size(memory)
             stored == {Sub(a, dst) : a \in {x \in NonZero(memory') :
                                                GreaterEq(x, dst) /\ Less(x, Add(dst, data.len))}}
         IN  Less(dst, logical_max) =>
                 \A i \in {j \in DOMAIN data.at \cup stored : Less(Add(dst, j), logical_max)} :
                     read_byte_at(memory', Add(dst, i)) = SliceByte(data, i)]_vars

\* the store driver makes a call
StoreCalled == ret'.calls = ret.calls + 1

RegisterCalled(op) ==
    ret.op = op /\ is_register_address(ret.address) /\ ret.address < MAX_REGISTER_ADDRESS

\* the slots of the general-purpose registers: RAX..RDI and R8..R15
GprSlots == (0..7) \cup (16..23)

\* the slots of the segment selectors, the instruction pointer and the alias slot
OtherSlots == (8..13) \cup {24, 25}

\* every register slot but the one the last call was aimed at is as before
OthersKept ==
    \A i \in 0..(MAX_REGISTER_ADDRESS - 1) :
        i # ret.address => registers[i] = ret.before.registers[i]

\* C21: on a general-purpose slot holding r, write_by_size at size 8 replaces
\* only bits 7:0 of r, at size 16 only bits 15:0, at size 32 it stores
\* v & 0xFFFFFFFF with bits 63:32 zero, at size 64 it stores v; so 0xABCD
\* written at width 16 over 0x12345678 reads back 0x1234ABCD at width 32.
C21_SizedWriteToGpr ==
    (RegisterCalled("write_by_size") /\ ret.address \in GprSlots) =>
        LET r == ret.before.registers[ret.address]
            v == ret.value
            now == registers[ret.address]
        IN  /\ ret.size = 8 => now \cap (0..7) = v \cap (0..7) /\ now \ (0..7) = r \ (0..7)
            /\ ret.size = 16 =>
                   now \cap (0..15) = v \cap (0..15) /\ now \ (0..15) = r \ (0..15)
            /\ ret.size = 32 => now = v \cap (0..31)
            /\ ret.size = 64 => now = v
            /\ OthersKept
            /\ (ret.size = 16 /\ v = U(43981) /\ r = U(305419896)) =>
                   fetch_by_size(Self, ret.address, 32) = U(305441741)

C21_Witness ==
    /\ RegisterCalled("write_by_size") /\ ret.address = 0
    /\ ret.size = 16 /\ ret.value = U(43981)
    /\ ret.before.registers[0] = U(305419896)
    /\ fetch_by_size(Self, 0, 32) = U(305441741)

\* C22: on a slot that is no general-purpose register (segment selectors 8-13,
\* instruction pointer 24, alias slot 25) write_by_size replaces the whole
\* slot at every size, so fetch returns v afterwards whatever the slot held.
C22_WholeSlotReplaced ==
    (RegisterCalled("write_by_size") /\ ret.address \in OtherSlots) =>
        fetch(Self, ret.address) = ret.value

\* C23: allocate with safe set on a register address whose slot is already
\* allocated returns false and leaves every register value and every
\* allocated flag unchanged, for every count.
C23_SafeAllocateRefused ==
    (RegisterCalled("allocate") /\ ret.safe
        /\ ret.before.registers_allocated[ret.address]) =>
        /\ ret.result = FALSE
        /\ registers = ret.before.registers
        /\ registers_allocated = ret.before.registers_allocated

C23_Witness ==
    /\ RegisterCalled("allocate") /\ ret.safe /\ ret.size = 3
    /\ ret.before.registers_allocated[ret.address]
    /\ ret.before.registers[ret.address] # {}
    /\ ret.result = FALSE

\* C24: try_to_fetch returns -1 for a slot that was never allocated or
\* written, and the stored value once allocate, write_by_size, write_16bit,
\* write_to_high_bit, write_to_low_bit or add/sub has touched the slot; no
\* operation returns a slot to the unallocated state.
C24_SentinelUntilTouched ==
    \A slot \in GprSlots \cup OtherSlots :
        /\ try_to_fetch(Self, slot) =
               IF slot \in ret.touched THEN registers[slot] ELSE MinusOne
        /\ ret.before.registers_allocated[slot] => registers_allocated[slot]

C24_Witness ==
    /\ RegisterCalled("write_to_low_bit") /\ ret.address = 8 /\ ret.value = U(43981)
    /\ ~ret.before.registers_allocated[8]
    /\ try_to_fetch(Self, 8) = U(205)
    /\ 0 \notin ret.touched /\ try_to_fetch(Self, 0) = MinusOne
    /\ \E slot \in ret.touched : slot # 8

\* ((low byte of r) + v) mod 2^16, by integer arithmetic
LowBytePlus(r, v) == U((ToNat(r \cap (0..7)) + ToNat(v \cap (0..15))) % 65536)

\* C25: add reads only the low byte of the slot: on a general-purpose slot
\* holding r it leaves bits 63:16 of r unchanged and sets bits 15:0 to
\* ((r & 0xFF) + v) mod 2^16; sub(addr, v) is add(addr, -v), and increment
\* and decrement are add and sub of 1.
C25_AddThroughLowByte ==
    LET r == ret.before.registers[ret.address]
        now == registers[ret.address]
    IN  /\ (RegisterCalled("add") /\ ret.address \in GprSlots) =>
               /\ now \ (0..15) = r \ (0..15)
               /\ now \cap (0..15) = LowBytePlus(r, ret.value)
               /\ OthersKept
        /\ ret.op = "sub" => Self = add(ret.before, ret.address, Neg(ret.value))
        /\ ret.op = "increment" => Self = add(ret.before, ret.address, W1)
        /\ ret.op = "decrement" => Self = sub(ret.before, ret.address, W1)

C25_Witness ==
    /\ RegisterCalled("add") /\ ret.address = 23 /\ ret.value = U(43981)
    /\ ret.before.registers[23] = U(305419896)
    /\ registers[23] = U(305441861)

\* C26: update_flags(value, width) for width 8, 16, 32, with m the value
\* masked to width bits: zero = (m = 0), sign = top bit of m, overflow =
\* (value as a signed 64-bit integer is outside [-2^(width-1), 2^(width-1)-1],
\* that is, bits 63:width-1 of value are not all equal), parity = (the low
\* byte of m has an even number of 1 bits); for width 64: zero = (value = 0),
\* sign = (value < 0), overflow = false, parity alike.  update_flags(0, 16)
\* sets zero, update_flags(-1, 16) sets sign, update_flags(0xFF, 16) parity.
C26_UpdateFlags ==
    ret.op = "update_flags" =>
        LET v == ret.value
            w == ret.size
            m == v \cap (0..(w - 1))
        IN  /\ zero_flag = (m = {})
            /\ sign_flag = ((w - 1) \in v)
            /\ overflow_flag = (w < 64 /\ v \cap ((w - 1)..63) \notin {{}, (w - 1)..63})
            /\ parity_flag = (Cardinality(m \cap (0..7)) % 2 = 0)
            /\ (v = {} /\ w = 16) => zero_flag
            /\ (v = MinusOne /\ w = 16) => sign_flag
            /\ (v = xFF /\ w = 16) => parity_flag

C26_Witness ==
    /\ ret.op = "update_flags" /\ ret.value = U(128) /\ ret.size = 8
    /\ sign_flag /\ overflow_flag /\ ~zero_flag /\ ~parity_flag
    /\ ~ret.flags.sign_flag

\* the registers, the control registers and EFER are as before the last call
AccessorKept ==
    /\ Self = ret.before
    /\ control_registers = ret.control_registers
    /\ efer = ret.efer

\* C27: update_flags changes only the zero, sign, overflow and parity flags:
\* carry, auxiliary carry, direction, interrupt and the instruction-fetch bit,
\* every register, every control register and EFER keep their values; each
\* flag setter changes only its own flag.
C27_FlagFrame ==
    /\ ret.op = "update_flags" =>
           /\ \A name \in {"carry_flag", "auxiliary_carry_flag", "direction_flag",
                           "interrupt_flag", "instruction_fetch"} :
                  SelfFlags[name] = ret.flags[name]
           /\ AccessorKept
    /\ ret.op \in FlagNames =>
           /\ \A name \in FlagNames :
                  SelfFlags[name] = IF name = ret.op THEN ret.result ELSE ret.flags[name]
           /\ AccessorKept

C27_Witness ==
    /\ ret.op = "update_flags" /\ ret.value = {}
    /\ carry_flag /\ ret.flags.carry_flag
    /\ zero_flag /\ ~ret.flags.zero_flag

\* ------------------------------------------------------------------------
\* Properties of the Order of the Page-Walk Checks
\* ------------------------------------------------------------------------

\* the entry the walk of the step read k-th, as the store held it
EntryRead(k) == EntryAt(memory, EntryReads(ret'.log)[k].address)

\* the 4 KiB table an entry address lies in
TableOf(address) == address \cap Mask(12, 31)

\* C28: the checks run top level first and, within an entry, in the order
\* present, reserved (legacy walk), user, write, and the first failing check
\* determines the fault: every entry read lies in the table the entry above
\* names (the first in the root table), every entry read before the last one
\* passes all its checks, a last entry that is not present yields the
\* not-present code whatever its other bits, a present legacy directory entry
\* with physical base 0 yields a code with bit 3 even when it denies the
\* access, and any other fault is the protection code of a denying last entry.
C28_CheckOrder ==
    [][(Calls /\ ret'.paging_enabled) =>
         LET n == Len(EntryReads(ret'.log))
             zeroBase(k) == ~Pae /\ EntryRead(k) \cap Mask(12, 31) = {}
             last == EntryRead(n)
         IN  /\ n >= 1
             /\ TableOf(EntryReads(ret'.log)[1].address) = Root
             /\ \A k \in 1..(n - 1) :
                   /\ 0 \in EntryRead(k) /\ ~zeroBase(k) /\ Permits(EntryRead(k), ret')
                   /\ TableOf(EntryReads(ret'.log)[k + 1].address) = TableOf(EntryRead(k))
             /\ 0 \notin last => ret'.err = Vector \cup WriteUser(ret')
             /\ (0 \in last /\ zeroBase(n) /\ n = 1) => 3 \in ret'.err
             /\ (0 \in last /\ ~zeroBase(n)) =>
                    ret'.err = IF Permits(last, ret') THEN {}
                               ELSE Vector \cup {0} \cup WriteUser(ret')]_vars

\* a legacy user write stopped at a present directory entry with base 0 that
\* is supervisor-only and read-only, with the reserved-bit code
C28_Witness ==
    /\ Called /\ ret.paging_enabled /\ ~Pae
    /\ ret.is_user /\ ret.is_write
    /\ Len(EntryReads(ret.log)) = 1
    /\ read_dword_at(memory, LastEntry(ret.log)) = {0}
    /\ 3 \in ret.err

\* C29: the reserved / zero-physical-base check belongs to the directory
\* entry of the legacy walk alone: a fault with error bit 3 comes from the
\* first entry of a legacy walk, never from a legacy table entry and never
\* from a PAE or IA-32e entry, whatever their base.
C29_ReservedCheckOnDirectoryOnly ==
    [][(Calls /\ ret'.paging_enabled /\ 3 \in ret'.err) =>
         (~Pae /\ Len(EntryReads(ret'.log)) = 1)]_vars

\* the directory entry the legacy walk of the step selects
Pde32 == read_dword_at(memory, Add(Root, Shl(Bits(Linear(ret'), 22, 31), 2)))

\* what C30 says of a present, permitting directory entry with bit 7 set
LargePage4M(pde) ==
    LET lin == Linear(ret')
        pde_addr == Add(Root, Shl(Bits(lin, 22, 31), 2))
        reads == EntryReads(ret'.log)
    IN  IF Pse
        THEN /\ ret'.physical = (pde \cap Mask(22, 31)) \cup (lin \cap Mask(0, 21))
             /\ ret'.err = {}
             /\ read_dword_at(memory', pde_addr) =
                    pde \cup {5} \cup (IF ret'.is_write THEN {6} ELSE {})
             /\ Len(reads) = 1
        ELSE /\ Len(reads) = 2
             /\ reads[2].address = Add(pde \cap Mask(12, 31), Shl(Bits(lin, 12, 21), 2))

\* C30: in the legacy walk with CR4.PSE = 1 a present directory entry with
\* bit 7 set that permits the access maps a 4 MiB page, for every 4 MiB-aligned
\* base in [0, 2^32): translate_linear returns ((PDE & 0xFFC00000) + (linear &
\* 0x3FFFFF), 0), sets the accessed bit of the PDE (and the dirty bit when
\* is_write) and reads no table entry; with CR4.PSE = 0 bit 7 is ignored and
\* the table entry is read.
C30_LargePage4M ==
    [][(Calls /\ ret'.paging_enabled /\ ~Pae) =>
         ((0 \in Pde32 /\ 7 \in Pde32 /\ Permits(Pde32, ret')) => LargePage4M(Pde32))]_vars

\* ------------------------------------------------------------------------
\* Properties of Large Pages, of Faulting and of Repeated Walks
\* ------------------------------------------------------------------------

\* the entries the PAE walk of `lin` selects in the stream m: <<PDPTE, PDE>>
Chain2(m, lin) ==
    LET pdpte == read_qword_at(m, Add(Root, Shl(Bits(lin, 30, 31), 3)))
        pde == read_qword_at(m, Add(pdpte \cap Mask(12, 31), Shl(Bits(lin, 21, 29), 3)))
    IN  <<pdpte, pde>>

\* the call of the step read `reads` entries, the last one at `leaf_addr`
\* holding `leaf`, mapped that entry as a page of 2^bits bytes, left it
\* accessed (and dirty on a write), and touched nothing at `lower_addr`
MapsLargePage(leaf, leaf_addr, lower_addr, base, bits, reads) ==
    LET entries == EntryReads(ret'.log)
    IN  /\ ret'.err = {}
        /\ ret'.physical = Add(base, Linear(ret') \cap Mask(0, bits - 1)) \cap Mask(0, 31)
        /\ Len(entries) = reads
        /\ entries[reads].address = leaf_addr
        /\ read_qword_at(memory', leaf_addr) =
               leaf \cup {5} \cup (IF ret'.is_write THEN {6} ELSE {})
        /\ \A i \in DOMAIN ret'.log : ret'.log[i].address # lower_addr
        /\ lower_addr \notin {entries[k].address : k \in DOMAIN entries} =>
               read_qword_at(memory', lower_addr) = read_qword_at(memory, lower_addr)

\* C31: in the PAE and IA-32e walks a present, permitting PDE with bit 7 set
\* maps a 2 MiB page at ((PDE & 0xFFE00000) + linear bits 20:0) mod 2^32, in
\* the IA-32e walk a present, permitting PDPTE with bit 7 set maps a 1 GiB page
\* at ((PDPTE & 0x000FFFFFC0000000) + linear bits 29:0) mod 2^32; that entry is
\* the leaf (accessed, dirty on a write) and no entry below it is read or written
C31_LargePages ==
    [][(Calls /\ ret'.paging_enabled /\ Pae) =>
         LET lin == Linear(ret')
             c2 == Chain2(memory, lin)
             c4 == Chain4(memory, lin)
             pdpte_addr == Add(c4[1] \cap Mask(12, 31), Shl(Bits(lin, 30, 38), 3))
             pde_of(pdpte) == Add(pdpte \cap Mask(12, 31), Shl(Bits(lin, 21, 29), 3))
             pte_of(pde) == Add(pde \cap Mask(12, 31), Shl(Bits(lin, 12, 20), 3))
         IN  /\ (~Lme /\ (\A k \in 1..2 : 0 \in c2[k] /\ Permits(c2[k], ret')) /\ 7 \in c2[2]) =>
                    MapsLargePage(c2[2], pde_of(c2[1]), pte_of(c2[2]),
                                  c2[2] \cap Mask(21, 31), 21, 2)
             /\ (Lme /\ (\A k \in 1..3 : 0 \in c4[k] /\ Permits(c4[k], ret'))
                     /\ 7 \notin c4[2] /\ 7 \in c4[3]) =>
                    MapsLargePage(c4[3], pde_of(c4[2]), pte_of(c4[3]),
                                  c4[3] \cap Mask(21, 31), 21, 3)
             /\ (Lme /\ (\A k \in 1..2 : 0 \in c4[k] /\ Permits(c4[k], ret')) /\ 7 \in c4[2]) =>
                    MapsLargePage(c4[2], pdpte_addr, pde_of(c4[2]),
                                  c4[2] \cap Mask(30, 51), 30, 2)]_vars

\* an IA-32e write through the PDPTE 0xFFFFF087 returned 0xC0201ABC after two
\* entry reads and left the PDPTE accessed and dirty
C31_Witness ==
    /\ Called /\ ret.paging_enabled /\ Pae /\ Lme
    /\ ret.is_write /\ ret.err = {}
    /\ Len(EntryReads(ret.log)) = 2
    /\ ret.physical = {31, 30, 21, 12} \cup U(2748)
    /\ read_qword_at(memory, LastEntry(ret.log)) = Mask(12, 31) \cup {7, 6, 5, 2, 1, 0}

\* ------------------------------------------------------------------------
\* Further Properties of the Backing Store
\* ------------------------------------------------------------------------

\* C32: after copy_internal(src, dst, len) with len > 0, src # dst,
\* src + len <= logical max and dst + len <= logical max, the committed size
\* is >= max(src + len, dst + len)
C32_CopyCommitsBothRanges ==
    [][StoreCalls("copy_internal") =>
         LET src == ret'.address
             dst == ret'.dest
             len == ret'.length
             logical_max == logical_max_memory_size(memory)
         IN  (/\ len # {} /\ src # dst
              /\ LessEq(Add(src, len), logical_max) /\ LessEq(Add(dst, len), logical_max)) =>
                 /\ LessEq(Add(src, len), memory'.size)
                 /\ LessEq(Add(dst, len), memory'.size)]_vars

\* C33: read_*_at, write_*_at, copy_internal and copy_from_external never
\* change the cursor, and the address-indexed reads change no state at all
\* (committed size and materialized pages are the same before and after)
C33_AddressIndexedKeepCursor ==
    [][(StoreCalled /\ ret'.op \in {"read_at", "write_at", "copy_internal",
                                    "copy_from_external"}) =>
         /\ memory'.offset = memory.offset
         /\ ret'.op = "read_at" =>
                /\ memory'.size = memory.size
                /\ memory'.pages = memory.pages
                /\ memory' = memory]_vars

\* with the cursor at a non-zero position a write_*_at grew the committed size
\* past the cursor and stored its value away from it
C33_Witness ==
    /\ ret.op = "write_at" /\ ret.calls = 2
    /\ memory.offset # {} /\ memory.offset # ret.address
    /\ Less(memory.offset, ret.address)
    /\ Less(ret.address, memory.size)
    /\ ReadAtOp(ret.width, memory, ret.address) = ret.value

\* ------------------------------------------------------------------------
\* Further Properties of the Register File
\* ------------------------------------------------------------------------

\* the slots is_register_address accepts
RegisterSlots == {i \in 0..(MAX_REGISTER_ADDRESS - 1) : is_register_address(i)}

\* C34: on every register slot, general-purpose or not, write_to_high_bit(addr, v)
\* replaces only bits 15:8 with v & 0xFF and write_to_low_bit(addr, v) only bits
\* 7:0 with v & 0xFF, every other bit of the slot and every other slot is kept;
\* so in every state the two writes commute and fetch_by_size(addr, 16) after
\* both is ((high & 0xFF) << 8) | (low & 0xFF)
C34_ByteWrites ==
    /\ RegisterCalled("write_to_high_bit") =>
           /\ registers[ret.address] \cap (8..15) = {i + 8 : i \in ret.value \cap (0..7)}
           /\ registers[ret.address] \ (8..15) = ret.before.registers[ret.address] \ (8..15)
           /\ OthersKept
    /\ RegisterCalled("write_to_low_bit") =>
           /\ registers[ret.address] \cap (0..7) = ret.value \cap (0..7)
           /\ registers[ret.address] \ (0..7) = ret.before.registers[ret.address] \ (0..7)
           /\ OthersKept
    /\ \A addr \in RegisterSlots, high \in RegisterValues, low \in RegisterValues :
           LET high_low == write_to_low_bit(write_to_high_bit(Self, addr, high), addr, low)
               low_high == write_to_high_bit(write_to_low_bit(Self, addr, low), addr, high)
           IN  /\ high_low = low_high
               /\ fetch_by_size(high_low, addr, 16) =
                      {i + 8 : i \in high \cap (0..7)} \cup (low \cap (0..7))
               /\ high_low.registers[addr] \ (0..15) = registers[addr] \ (0..15)

\* write_to_high_bit(24, 0x12345678) on the fresh instruction-pointer slot, then
\* write_to_low_bit(24, 0xABCD): the slot reads 0x78CD at width 16
C34_Witness ==
    /\ RegisterCalled("write_to_low_bit") /\ ret.address = 24 /\ ret.value = U(43981)
    /\ ret.calls = 2
    /\ ret.before.registers[24] = Shl(U(120), 8)
    /\ fetch_by_size(Self, 24, 16) = U(30925)

\* the slots of the run the last allocate call named
Run == ret.address..(ret.address + ret.size - 1)

\* the slot holds what it held before the last call
SlotKept(slot) ==
    /\ registers[slot] = ret.before.registers[slot]
    /\ registers_allocated[slot] = ret.before.registers_allocated[slot]

C36_Below4G ==
    (Called /\ ret.paging_enabled /\ ret.err = {}) =>
        /\ ret.physical \subseteq Mask(0, 31)
        /\ \A i \in DOMAIN EntryReads(ret.log) :
               EntryReads(ret.log)[i].address \subseteq Mask(0, 31)

\* an IA-32e walk went through a page table entry whose base has bits 33:32
\* set (and bit 63) and returned the frame below 4 GiB
C36_Witness ==
    /\ Called /\ ret.paging_enabled /\ Pae /\ Lme
    /\ ret.err = {}
    /\ ret.linear = LinearLow /\ ret.linear_mask = Mask(0, 47)
    /\ Len(EntryReads(ret.log)) = 4
    /\ {32, 33} \subseteq read_qword_at(memory, LastEntry(ret.log))
    /\ ret.physical = LinearBase

\* C38: when translate_linear returns a non-zero error code the backing store
\* is byte-for-byte unchanged: the faulting walk has written no accessed or
\* dirty bit into any page-table entry, in each of the three walks and at
\* whichever level the fault occurred; CR2 is the only state that changes
C38_FaultLeavesStore ==
    [][(Calls /\ ret'.err # {}) =>
         /\ memory' = memory
         /\ \A i \in DOMAIN ret'.log :
                ret'.log[i].op \notin {"write_physical_32", "write_physical_64"}
         /\ \A i \in 0..8 : i # 2 => control_registers'[i] = control_registers[i]
         /\ UNCHANGED <<regVars, flagVars, instruction_fetch, efer>>]_vars

Repeats == pc = "done" /\ pc' = "again" /\ ret'.op = "translate_linear_again"

\* C40: repeating a translate_linear call that returned error code 0, with the
\* same arguments and no change to CR3, CR4, EFER or the backing store in
\* between, returns the same physical address with error code 0 and leaves the
\* backing store unchanged (the accessed and dirty bits are already set)
C40_RepeatedWalk ==
    [][(Repeats /\ ret.err = {}) =>
         /\ ret'.physical = ret.physical
         /\ ret'.err = {}
         /\ memory' = memory
         /\ control_registers' = control_registers]_vars

\* a repeated IA-32e write through four levels returned the identity-mapped
\* address again, with the leaf accessed and dirty
C40_Witness ==
    /\ pc = "again" /\ ret.op = "translate_linear_again"
    /\ ret.paging_enabled /\ Pae /\ Lme /\ ret.is_write
    /\ Len(EntryReads(ret.log)) = 4
    /\ ret.err = {} /\ ret.physical = LinearBase
    /\ {5, 6} \subseteq read_qword_at(memory, LastEntry(ret.log))

\* ------------------------------------------------------------------------
\* Properties of Division
\* ------------------------------------------------------------------------

\* the truncated quotient of the i128 n by the non-zero i64 d lies in
\* [-2^63, 2^63 - 1]: |n| < |d| * 2^63 when the signs agree, and
\* |n| < |d| * 2^63 + |d| when they differ
SignedQuotientFits(n, d) ==
    LET magnitude == Abs128(AsI128(d))
        limit == {i + 63 : i \in magnitude}
                     \cup (IF (127 \in n) # (63 \in d) THEN magnitude ELSE {})
    IN  Less(Abs128(n), limit)

\* the call was refused: it returned false and wrote no output
Refused == ~ret.result /\ ~ret.written

\* C37: for every 128-bit dividend and every divisor, uint128_divmod_u64 and
\* int128_divmod_i64 return false when the divisor is 0 or when the quotient
\* does not fit in 64 bits (unsigned: high >= divisor; signed: outside
\* [-2^63, 2^63 - 1]), writing no output and never failing fatally; uint64_div
\* and uint64_mod return false on a zero divisor
C37_DivisionRefuses ==
    pc = "divided" =>
        /\ ~ret.fatal
        /\ (ret.op \in {"uint64_div", "uint64_mod"} /\ ret.divisor = {}) => Refused
        /\ (ret.op = "uint128_divmod_u64"
               /\ (ret.divisor = {} \/ GreaterEq(ret.high, ret.divisor))) => Refused
        /\ (ret.op = "int128_divmod_i64"
               /\ (ret.divisor = {}
                      \/ ~SignedQuotientFits({i + 64 : i \in ret.high} \cup ret.low,
                                             ret.divisor))) => Refused
====
